---- MODULE Spec2Model ----
(***************************************************************************)
(* quark::io zero-copy streams (include/quark/io/zero_copy_stream.h):      *)
(* the four stream backends, the varint / fixed-width / length-delimited   *)
(* codecs and the tagged-value layer, as operators on stream records, and  *)
(* state machines that drive them.                                         *)
(*                                                                         *)
(* A stream object is a record holding the class's data members under      *)
(* their own names.  Every operator that models a method returns a record  *)
(* [s |-> the object afterwards, ok |-> the bool returned,                 *)
(*  raised |-> a std::runtime_error left the call, ...outputs].            *)
(* Indices and offsets are the C++ ones (0-based); At(seq, i) reads        *)
(* element i of a 0-based array.                                           *)
(*                                                                         *)
(* The field ev of a stream record is a call trace, not a data member:     *)
(* the virtual Next / BackUp calls made on the object since the driver     *)
(* last cleared it.                                                        *)
(***************************************************************************)
EXTENDS Integers, Sequences, FiniteSets, TLC

VARIABLES st,      \* the stream object under test
          last,    \* what the last call was given and what it returned
          blk,     \* the block last returned by a successful Next (input streams)
          avail,   \* how many of its bytes have not been backed up since
          calls,   \* how many calls the driver has made on an output stream
          wr,      \* the values written to an output stream so far, in order
          rd       \* how many of them have been read back after Reopen

vars == <<st, last, blk, avail, calls, wr, rd>>

\* ------------------------------------------------------------------------
\* Bytes and arrays
\* ------------------------------------------------------------------------

\* F(x), with x evaluated once however often F refers to it: the result of
\* a call, held in a local.
Bind(x, F(_)) == CHOOSE y \in {F(v) : v \in {x}} : TRUE

At(seq, i) == seq[i + 1]

Slice(seq, from, n) == [i \in 1..n |-> seq[from + i]]

Min(a, b) == IF a < b THEN a ELSE b

Max(a, b) == IF a > b THEN a ELSE b

\* A byte of storage that no write has defined (reserved-but-unsized vector
\* storage); no operation of the header reads such a byte.
Indet == -1

Fill(n, b) == [i \in 1..n |-> b]

NextEv(ok, n) == [e |-> "Next", ok |-> ok, n |-> n, raised |-> FALSE]

BackUpEv(count, raised) == [e |-> "BackUp", ok |-> ~raised, n |-> count, raised |-> raised]

Log(s, event) == [s EXCEPT !.ev = Append(@, event)]

\* ------------------------------------------------------------------------
\* BufferInputStream
\* ------------------------------------------------------------------------

BufferInputStream(data, size) ==
    [kind |-> "BufferInputStream", data_ |-> data, size_ |-> size,
     pos_ |-> 0, last_returned_ |-> 0, ev |-> << >>]

BufferInputStream_Next(s) ==
    IF s.pos_ >= s.size_
    THEN [s |-> Log(s, NextEv(FALSE, 0)), ok |-> FALSE, block |-> << >>, size |-> 0]
    ELSE LET available == s.size_ - s.pos_
         IN  [s     |-> Log([s EXCEPT !.pos_ = @ + available,
                                      !.last_returned_ = available],
                            NextEv(TRUE, available)),
              ok    |-> TRUE,
              block |-> Slice(s.data_, s.pos_, available),
              size  |-> available]

\* A BackUp that returns what is left of the block before it throws.
BufferInputStream_BackUp_Partly(s, count) ==
    IF count > s.last_returned_
    THEN [s |-> Log([s EXCEPT !.pos_ = @ - s.last_returned_, !.last_returned_ = 0],
                    BackUpEv(count, TRUE)),
          raised |-> TRUE]
    ELSE [s |-> Log([s EXCEPT !.pos_ = @ - count, !.last_returned_ = @ - count],
                    BackUpEv(count, FALSE)),
          raised |-> FALSE]

BufferInputStream_BackUp(s, count) ==
    IF count > s.last_returned_
    THEN [s |-> Log(s, BackUpEv(count, TRUE)), raised |-> TRUE]
    ELSE [s |-> Log([s EXCEPT !.pos_ = @ - count, !.last_returned_ = @ - count],
                    BackUpEv(count, FALSE)),
          raised |-> FALSE]

BufferInputStream_ByteCount(s) == s.pos_

\* ------------------------------------------------------------------------
\* MultiBufferInputStream
\* ------------------------------------------------------------------------

MultiBufferInputStream(chunks) ==
    [kind |-> "MultiBufferInputStream", chunks_ |-> chunks, idx_ |-> 0,
     backed_up_ |-> 0, last_size_ |-> 0, total_ |-> 0, ev |-> << >>]

\* A tail taken from the front of the chunk.
ChunkTail_Head(chunks, ci, count, junk) ==
    IF ci < 0 \/ ci >= Len(chunks)
    THEN Fill(count, junk)
    ELSE [i \in 1..count |-> IF i <= Len(At(chunks, ci)) THEN At(chunks, ci)[i] ELSE junk]

\* The bytes at c.data + c.size - backed_up_ .. c.data + c.size of chunk
\* number ci.  chunks_[idx_ - 1] with idx_ = 0 indexes the vector out of
\* range, and an offset before c.data reads outside the chunk: both are
\* undefined, and such a byte reads as junk, a value the caller of the model
\* chooses.
ChunkTail(chunks, ci, count, junk) ==
    IF ci < 0 \/ ci >= Len(chunks)
    THEN Fill(count, junk)
    ELSE LET c   == At(chunks, ci)
             off == Len(c) - count
         IN  [i \in 1..count |-> IF off + i >= 1 THEN c[off + i] ELSE junk]

\* A Next that passes over a chunk each time it takes one.
MultiBufferInputStream_Next_SkipsChunk(s, junk) ==
    IF s.idx_ >= Len(s.chunks_)
    THEN [s |-> Log(s, NextEv(FALSE, 0)), ok |-> FALSE, block |-> << >>, size |-> 0]
    ELSE LET c == At(s.chunks_, Min(s.idx_ + 1, Len(s.chunks_) - 1))
         IN  [s     |-> Log([s EXCEPT !.idx_ = Min(@ + 2, Len(s.chunks_)),
                                      !.total_ = @ + Len(c),
                                      !.last_size_ = Len(c)],
                            NextEv(TRUE, Len(c))),
              ok    |-> TRUE,
              block |-> c,
              size  |-> Len(c)]

\* A Next that hands out an empty chunk without moving past it.
MultiBufferInputStream_Next_StuckOnEmpty(s, junk) ==
    IF s.idx_ >= Len(s.chunks_)
    THEN [s |-> Log(s, NextEv(FALSE, 0)), ok |-> FALSE, block |-> << >>, size |-> 0]
    ELSE [s     |-> [s EXCEPT !.idx_ = IF Len(At(s.chunks_, s.idx_)) = 0 THEN @ ELSE @ + 1,
                              !.total_ = @ + Len(At(s.chunks_, s.idx_)),
                              !.last_size_ = Len(At(s.chunks_, s.idx_))],
          ok    |-> TRUE,
          block |-> At(s.chunks_, s.idx_),
          size  |-> Len(At(s.chunks_, s.idx_))]

MultiBufferInputStream_Next(s, junk) ==
    IF s.backed_up_ > 0
    THEN [s     |-> Log([s EXCEPT !.total_ = @ + s.backed_up_,
                                  !.last_size_ = s.backed_up_,
                                  !.backed_up_ = 0],
                        NextEv(TRUE, s.backed_up_)),
          ok    |-> TRUE,
          block |-> ChunkTail(s.chunks_, s.idx_ - 1, s.backed_up_, junk),
          size  |-> s.backed_up_]
    ELSE IF s.idx_ >= Len(s.chunks_)
    THEN [s |-> Log(s, NextEv(FALSE, 0)), ok |-> FALSE, block |-> << >>, size |-> 0]
    ELSE LET c == At(s.chunks_, s.idx_)
         IN  [s     |-> Log([s EXCEPT !.idx_ = @ + 1,
                                      !.total_ = @ + Len(c),
                                      !.last_size_ = Len(c)],
                            NextEv(TRUE, Len(c))),
              ok    |-> TRUE,
              block |-> c,
              size  |-> Len(c)]

\* A BackUp that moves the chunk index and leaves the count as it was.
MultiBufferInputStream_BackUp_Uncounted(s, count) ==
    IF count > s.last_size_
    THEN [s |-> Log(s, BackUpEv(count, TRUE)), raised |-> TRUE]
    ELSE [s |-> Log([s EXCEPT !.backed_up_ = count,
                              !.idx_ = IF count = s.last_size_ /\ @ > 0 THEN @ - 1 ELSE @,
                              !.last_size_ = @ - count],
                    BackUpEv(count, FALSE)),
          raised |-> FALSE]

MultiBufferInputStream_BackUp(s, count) ==
    IF count > s.last_size_
    THEN [s |-> Log(s, BackUpEv(count, TRUE)), raised |-> TRUE]
    ELSE [s |-> Log([s EXCEPT !.total_ = @ - count,
                              !.backed_up_ = count,
                              !.idx_ = IF count = s.last_size_ /\ @ > 0 THEN @ - 1 ELSE @,
                              !.last_size_ = @ - count],
                    BackUpEv(count, FALSE)),
          raised |-> FALSE]

MultiBufferInputStream_ByteCount(s) == s.total_

\* ------------------------------------------------------------------------
\* BufferOutputStream
\* ------------------------------------------------------------------------

\* total_ has no initialiser and no method reads it except to update it: it
\* stays indeterminate.
BufferOutputStream(data, size) ==
    [kind |-> "BufferOutputStream", data_ |-> data, size_ |-> size,
     pos_ |-> 0, last_provided_ |-> 0, total_ |-> Indet, ev |-> << >>]

BufferOutputStream_Next(s) ==
    IF s.pos_ >= s.size_
    THEN [s |-> Log(s, NextEv(FALSE, 0)), ok |-> FALSE, block |-> 0, size |-> 0]
    ELSE LET available == s.size_ - s.pos_
         IN  [s     |-> Log([s EXCEPT !.pos_ = @ + available,
                                      !.last_provided_ = available],
                            NextEv(TRUE, available)),
              ok    |-> TRUE,
              block |-> s.pos_,
              size  |-> available]

BufferOutputStream_BackUp(s, count) ==
    IF count > s.last_provided_
    THEN [s |-> Log(s, BackUpEv(count, TRUE)), raised |-> TRUE]
    ELSE [s |-> Log([s EXCEPT !.pos_ = @ - count, !.last_provided_ = @ - count],
                    BackUpEv(count, FALSE)),
          raised |-> FALSE]

BufferOutputStream_ByteCount(s) == s.pos_

\* ------------------------------------------------------------------------
\* VectorOutputStream
\* ------------------------------------------------------------------------

\* std::vector<uint8_t>: capacity bytes of storage, of which data holds the
\* bytes up to the last one a write has defined (every byte after them is
\* indeterminate), and size, the number of elements.

\* The enforced minimum block size.
kMinBlockSize == 64

\* buf_.reserve(n): a larger request reallocates; the elements [0, size) are
\* moved, the rest of the new storage is indeterminate.
Vector_reserve(v, n) ==
    IF n <= v.capacity THEN v
    ELSE [data |-> Slice(v.data, 0, v.size), size |-> v.size, capacity |-> n]

\* A resize that never shrinks the vector.
Vector_resize_GrowOnly(v, n) ==
    [data     |-> [i \in 1..Max(Len(v.data), n) |->
                      IF i > v.size /\ i <= n THEN 0 ELSE v.data[i]],
     size     |-> Max(v.size, n),
     capacity |-> v.capacity]

\* buf_.resize(n), n within the capacity: appended elements are
\* value-initialised (zero), whatever the storage held; shrinking only moves
\* the end.
Vector_resize(v, n) ==
    [data     |-> [i \in 1..Max(Len(v.data), n) |->
                      IF i > v.size /\ i <= n THEN 0 ELSE v.data[i]],
     size     |-> n,
     capacity |-> v.capacity]

VectorOutputStream(block_size) ==
    LET bs == Max(kMinBlockSize, block_size)
    IN  [kind |-> "VectorOutputStream",
         buf_ |-> Vector_reserve([data |-> << >>, size |-> 0, capacity |-> 0], bs),
         block_size_ |-> bs, size_ |-> 0, last_provided_ |-> 0, total_ |-> 0,
         ev |-> << >>]

\* A Next that never enlarges the storage.
VectorOutputStream_Next_NoGrow(s) ==
    [s     |-> Log([s EXCEPT !.size_ = @ + s.block_size_,
                             !.last_provided_ = s.block_size_,
                             !.total_ = @ + s.block_size_],
                   NextEv(TRUE, s.block_size_)),
     ok    |-> TRUE,
     block |-> s.size_,
     size  |-> s.block_size_]

VectorOutputStream_Next(s) ==
    LET grown == IF s.buf_.size < s.size_ + s.block_size_
                 THEN Vector_reserve(s.buf_,
                                     Max(s.buf_.capacity * 2, s.size_ + s.block_size_))
                 ELSE s.buf_
    IN  [s     |-> Log([s EXCEPT !.buf_ = grown,
                                 !.size_ = @ + s.block_size_,
                                 !.last_provided_ = s.block_size_,
                                 !.total_ = @ + s.block_size_],
                       NextEv(TRUE, s.block_size_)),
         ok    |-> TRUE,
         block |-> s.size_,
         size  |-> s.block_size_]

\* A BackUp that clamps an out-of-range count to what is left of the block.
VectorOutputStream_BackUp_Clamp(s, count) ==
    LET c == Min(count, s.last_provided_)
    IN  [s |-> Log([s EXCEPT !.size_ = @ - c,
                             !.total_ = @ - c,
                             !.last_provided_ = @ - c,
                             !.buf_ = Vector_resize(@, s.size_ - c)],
                   BackUpEv(count, FALSE)),
         raised |-> FALSE]

VectorOutputStream_BackUp(s, count) ==
    IF count > s.last_provided_
    THEN [s |-> Log(s, BackUpEv(count, TRUE)), raised |-> TRUE]
    ELSE [s |-> Log([s EXCEPT !.size_ = @ - count,
                              !.total_ = @ - count,
                              !.last_provided_ = @ - count,
                              !.buf_ = Vector_resize(@, s.size_ - count)],
                    BackUpEv(count, FALSE)),
          raised |-> FALSE]

VectorOutputStream_ByteCount(s) == s.size_

VectorOutputStream_buffer(s) == Slice(s.buf_.data, 0, s.buf_.size)

\* ------------------------------------------------------------------------
\* The interfaces: virtual dispatch and the methods built on it
\* ------------------------------------------------------------------------

IsInput(s) == s.kind \in {"BufferInputStream", "MultiBufferInputStream"}

IsOutput(s) == s.kind \in {"BufferOutputStream", "VectorOutputStream"}

ZeroCopyInputStream_Next(s, junk) ==
    IF s.kind = "BufferInputStream" THEN BufferInputStream_Next(s)
    ELSE MultiBufferInputStream_Next(s, junk)

ZeroCopyInputStream_BackUp(s, count) ==
    IF s.kind = "BufferInputStream" THEN BufferInputStream_BackUp(s, count)
    ELSE MultiBufferInputStream_BackUp(s, count)

ZeroCopyOutputStream_Next(s) ==
    IF s.kind = "BufferOutputStream" THEN BufferOutputStream_Next(s)
    ELSE VectorOutputStream_Next(s)

ZeroCopyOutputStream_BackUp(s, count) ==
    IF s.kind = "BufferOutputStream" THEN BufferOutputStream_BackUp(s, count)
    ELSE VectorOutputStream_BackUp(s, count)

ByteCount(s) ==
    CASE s.kind = "BufferInputStream"      -> BufferInputStream_ByteCount(s)
      [] s.kind = "MultiBufferInputStream" -> MultiBufferInputStream_ByteCount(s)
      [] s.kind = "BufferOutputStream"     -> BufferOutputStream_ByteCount(s)
      [] s.kind = "VectorOutputStream"     -> VectorOutputStream_ByteCount(s)

\* A copy that lands at the start of the storage, whatever block was handed
\* out.
Store_AtStart(s, block, src) ==
    IF s.kind = "BufferOutputStream"
    THEN [s EXCEPT !.data_ = [i \in 1..Len(@) |-> IF i <= Len(src) THEN src[i] ELSE @[i]]]
    ELSE [s EXCEPT !.buf_.data = [i \in 1..Max(Len(@), Len(src)) |->
                 IF i <= Len(src) THEN src[i] ELSE @[i]]]

\* std::memcpy(block, ptr, n) into the block an output Next handed out.
Store(s, block, src) ==
    IF s.kind = "BufferOutputStream"
    THEN [s EXCEPT !.data_ = [i \in 1..Len(@) |->
                 IF i > block /\ i <= block + Len(src) THEN src[i - block] ELSE @[i]]]
    ELSE [s EXCEPT !.buf_.data = [i \in 1..Max(Len(@), block + Len(src)) |->
                 IF i > block /\ i <= block + Len(src) THEN src[i - block]
                 ELSE IF i <= Len(@) THEN @[i] ELSE Indet]]

\* One turn of the loop of WriteRaw: a Next, then the copy into the block it
\* handed out.  done says that the turn left the function.
WriteRawTurn(s, src) ==
    IF Len(src) = 0 THEN [done |-> TRUE, s |-> s, ok |-> TRUE, raised |-> FALSE, src |-> src]
    ELSE Bind(ZeroCopyOutputStream_Next(s), LAMBDA r :
         IF ~r.ok
         THEN [done |-> TRUE, s |-> r.s, ok |-> FALSE, raised |-> FALSE, src |-> src]
         ELSE IF r.size > Len(src)
         THEN Bind(ZeroCopyOutputStream_BackUp(Store(r.s, r.block, src), r.size - Len(src)),
                   LAMBDA b : [done |-> TRUE, s |-> b.s, ok |-> ~b.raised,
                               raised |-> b.raised, src |-> << >>])
         ELSE [done |-> FALSE, s |-> Store(r.s, r.block, Slice(src, 0, r.size)),
               ok |-> TRUE, raised |-> FALSE,
               src |-> SubSeq(src, r.size + 1, Len(src))])

RECURSIVE WriteRaw(_, _)
WriteRaw(s, src) ==
    Bind(WriteRawTurn(s, src), LAMBDA t :
         IF t.done THEN [s |-> t.s, ok |-> t.ok, raised |-> t.raised]
         ELSE WriteRaw(t.s, t.src))

\* One turn of the loop of ReadRaw: a Next, then the copy out of the block it
\* returned.  done says that the turn left the function.
ReadRawTurn(s, remaining, out, junk) ==
    IF remaining = 0
    THEN [done |-> TRUE, s |-> s, ok |-> TRUE, raised |-> FALSE, out |-> out,
          remaining |-> remaining]
    ELSE Bind(ZeroCopyInputStream_Next(s, junk), LAMBDA r :
         IF ~r.ok
         THEN [done |-> TRUE, s |-> r.s, ok |-> FALSE, raised |-> FALSE, out |-> out,
               remaining |-> remaining]
         ELSE IF r.size > remaining
         THEN Bind(ZeroCopyInputStream_BackUp(r.s, r.size - remaining), LAMBDA b :
                   [done |-> TRUE, s |-> b.s, ok |-> ~b.raised, raised |-> b.raised,
                    out |-> out \o Slice(r.block, 0, remaining), remaining |-> 0])
         ELSE [done |-> FALSE, s |-> r.s, ok |-> TRUE, raised |-> FALSE,
               out |-> out \o r.block, remaining |-> remaining - r.size])

RECURSIVE ReadRawLoop(_, _, _, _)
ReadRawLoop(s, remaining, out, junk) ==
    Bind(ReadRawTurn(s, remaining, out, junk), LAMBDA t :
         IF t.done THEN [s |-> t.s, ok |-> t.ok, raised |-> t.raised, out |-> t.out]
         ELSE ReadRawLoop(t.s, t.remaining, t.out, junk))

\* A ReadRaw that puts the stream back where it was when it fails.
ReadRaw_Rewinding(s, size, junk) ==
    Bind(ReadRawLoop(s, size, << >>, junk), LAMBDA r :
         IF r.ok \/ r.raised THEN r
         ELSE [s |-> [s EXCEPT !.ev = r.s.ev], ok |-> FALSE, raised |-> FALSE, out |-> r.out])

\* out holds the bytes copied into the caller's buffer, in order.
ReadRaw(s, size, junk) == ReadRawLoop(s, size, << >>, junk)

\* One turn of the loop of Skip.  done says that the turn left the function.
SkipTurn(s, count, junk) ==
    IF count = 0 THEN [done |-> TRUE, s |-> s, ok |-> TRUE, raised |-> FALSE, count |-> count]
    ELSE Bind(ZeroCopyInputStream_Next(s, junk), LAMBDA r :
         IF ~r.ok
         THEN [done |-> TRUE, s |-> r.s, ok |-> FALSE, raised |-> FALSE, count |-> count]
         ELSE IF r.size > count
         THEN Bind(ZeroCopyInputStream_BackUp(r.s, r.size - count), LAMBDA b :
                   [done |-> TRUE, s |-> b.s, ok |-> ~b.raised, raised |-> b.raised,
                    count |-> 0])
         ELSE [done |-> FALSE, s |-> r.s, ok |-> TRUE, raised |-> FALSE,
               count |-> count - r.size])

RECURSIVE Skip(_, _, _)
Skip(s, count, junk) ==
    Bind(SkipTurn(s, count, junk), LAMBDA t :
         IF t.done THEN [s |-> t.s, ok |-> t.ok, raised |-> t.raised]
         ELSE Skip(t.s, t.count, junk))

\* ------------------------------------------------------------------------
\* Machine integers
\* ------------------------------------------------------------------------

\* A uint32_t / uint64_t is its bit pattern, a function from 0..31 / 0..63
\* (bit 0 the least significant) to {0, 1}, so that 64-bit values and 32-bit
\* wrap-around are exact.

BitOf(n, i) == IF i > 30 THEN 0 ELSE (n \div (2 ^ i)) % 2

\* The w-bit pattern of a natural number below 2^31.
UInt(w, n) == [i \in 0..(w - 1) |-> BitOf(n, i)]

\* The number that bits lo..hi of v stand for, summed by halves.
RECURSIVE BitsValue(_, _, _)
BitsValue(v, lo, hi) ==
    IF lo > hi THEN 0
    ELSE IF lo = hi THEN v[lo] * (2 ^ lo)
    ELSE BitsValue(v, lo, (lo + hi) \div 2) + BitsValue(v, (lo + hi) \div 2 + 1, hi)

NatOfBits(v, hi) == BitsValue(v, 0, hi)

\* A uint32_t widened to size_t for a comparison with a block size.  Every
\* value of 2^30 or more compares as 2^30, more than any stream modelled
\* here holds.
ToSize(v) ==
    IF \E i \in DOMAIN v : i >= 30 /\ v[i] = 1 THEN 2 ^ 30 ELSE NatOfBits(v, 29)

\* static_cast<uint8_t>(v)
U8(v) == NatOfBits(v, 7)

\* v >> k
ShiftRight(v, k) == [i \in DOMAIN v |-> IF i + k \in DOMAIN v THEN v[i + k] ELSE 0]

\* The byte or-ed in without the shift.
OrShifted_Unshifted(v, b, shift) ==
    [i \in DOMAIN v |-> IF i < 8 /\ BitOf(b, i) = 1 THEN 1 ELSE v[i]]

\* v | (static_cast<uintN_t>(b) << shift), b a byte, truncated to v's width
OrShifted(v, b, shift) ==
    [i \in DOMAIN v |->
        IF i >= shift /\ i - shift < 8 /\ BitOf(b, i - shift) = 1 THEN 1 ELSE v[i]]

\* static_cast<uint32_t>(value), value an int32_t
Int32ToUInt32(value) ==
    IF value >= 0 THEN UInt(32, value)
    ELSE [i \in 0..31 |-> 1 - BitOf(-(value + 1), i)]

\* static_cast<int32_t>(v), v a uint32_t (modular since C++20)
UInt32ToInt32(v) ==
    IF v[31] = 1 THEN (NatOfBits(v, 30) - 2 ^ 30) - 2 ^ 30 ELSE NatOfBits(v, 30)

\* A float is its IEEE-754 fields; std::memcpy between a float and a
\* uint32_t packs and unpacks them.
FloatToBits(f) ==
    [i \in 0..31 |-> IF i = 31 THEN f.sign
                     ELSE IF i >= 23 THEN BitOf(f.exponent, i - 23)
                     ELSE BitOf(f.mantissa, i)]

BitsToFloat(v) ==
    [sign     |-> v[31],
     exponent |-> NatOfBits([i \in 0..7 |-> v[i + 23]], 7),
     mantissa |-> NatOfBits(v, 22)]

\* ------------------------------------------------------------------------
\* Varint and fixed-width codecs
\* ------------------------------------------------------------------------

kMaxVarint32Bytes == 5

kMaxVarint64Bytes == 10

\* Every value laid out in five groups, whatever its size.
VarintBytes_FixedWidth(varint) ==
    [i \in 1..5 |-> (U8(ShiftRight(varint, 7 * (i - 1))) % 128) + (IF i < 5 THEN 128 ELSE 0)]

\* The encoding loop shared by WriteVarint32 and WriteVarint64: the bytes
\* stored in tmp.
RECURSIVE VarintBytes(_)
VarintBytes(varint) ==
    IF \E i \in DOMAIN varint : i >= 7 /\ varint[i] = 1
    THEN << 128 + (U8(varint) % 128) >> \o VarintBytes(ShiftRight(varint, 7))
    ELSE << U8(varint) >>

WriteVarint32(out, varint) == WriteRaw(out, VarintBytes(varint))

WriteVarint64(out, varint) == WriteRaw(out, VarintBytes(varint))

\* One turn of the decoding loop of ReadVarint32 (limit 35) and ReadVarint64
\* (limit 70).  data is the block last returned by Next; p is ptr - data, -1
\* for nullptr; cur says that ptr points into data.  After a zero-length
\* block ptr still points at the end of the block before it: comparing it
\* with data + size, reading through it and subtracting it from data + size
\* are then undefined, and yield junk.  The result holds the locals after the
\* turn; done says that the turn left the function.
ReadVarintTurn(s, limit, out_val, shift, data, p, cur, junk) ==
    LET left(t, ok, raised, val) ==
            [done |-> TRUE, s |-> t, ok |-> ok, raised |-> raised, out_val |-> val,
             shift |-> shift, data |-> data, p |-> p, cur |-> cur]
    IN
    IF ~(shift < limit) THEN left(s, FALSE, FALSE, out_val)
    ELSE Bind(LET refill == p = -1 \/ (IF cur THEN p >= Len(data) ELSE junk % 2 = 0)
              IN  [refill |-> refill,
                   r      |-> IF refill THEN ZeroCopyInputStream_Next(s, junk)
                              ELSE [s |-> s, ok |-> TRUE, block |-> data,
                                    size |-> Len(data)]], LAMBDA a :
         IF ~a.r.ok THEN left(a.r.s, FALSE, FALSE, out_val)
         ELSE IF a.refill /\ a.r.size = 0
         THEN [done |-> FALSE, s |-> a.r.s, ok |-> TRUE, raised |-> FALSE,
               out_val |-> out_val, shift |-> shift, data |-> a.r.block, p |-> p,
               cur |-> FALSE]
         ELSE Bind(LET q    == IF a.refill THEN 0 ELSE p
                       here == a.refill \/ cur
                       byte == IF here THEN At(a.r.block, q) ELSE junk
                   IN  [byte |-> byte, here |-> here, p |-> q + 1,
                        val  |-> OrShifted(out_val, byte % 128, shift)], LAMBDA it :
              IF it.byte < 128
              THEN Bind(ZeroCopyInputStream_BackUp(a.r.s,
                            IF it.here THEN a.r.size - it.p ELSE junk), LAMBDA b :
                        left(b.s, ~b.raised, b.raised, it.val))
              ELSE [done |-> FALSE, s |-> a.r.s, ok |-> TRUE, raised |-> FALSE,
                    out_val |-> it.val, shift |-> shift + 7, data |-> a.r.block,
                    p |-> it.p, cur |-> it.here]))

\* The loop: turn after turn until one leaves the function.
RECURSIVE ReadVarintLoop(_, _, _, _, _, _, _, _)
ReadVarintLoop(s, limit, out_val, shift, data, p, cur, junk) ==
    Bind(ReadVarintTurn(s, limit, out_val, shift, data, p, cur, junk), LAMBDA t :
         IF t.done
         THEN [s |-> t.s, ok |-> t.ok, raised |-> t.raised, out_val |-> t.out_val]
         ELSE ReadVarintLoop(t.s, limit, t.out_val, t.shift, t.data, t.p, t.cur, junk))

\* A reader whose guard admits a sixth group.
ReadVarint32_Wide(in, junk) == ReadVarintLoop(in, 42, UInt(32, 0), 0, << >>, -1, FALSE, junk)

ReadVarint32(in, junk) == ReadVarintLoop(in, 35, UInt(32, 0), 0, << >>, -1, FALSE, junk)

ReadVarint64(in, junk) == ReadVarintLoop(in, 70, UInt(64, 0), 0, << >>, -1, FALSE, junk)

\* The bytes laid out highest first.
FixedBytes_BigEndian(v, n) == [i \in 1..n |-> U8(ShiftRight(v, 8 * (n - i)))]

\* b[i] = static_cast<uint8_t>(v >> 8 * i)
FixedBytes(v, n) == [i \in 1..n |-> U8(ShiftRight(v, 8 * (i - 1)))]

WriteFixed32(out, v) == WriteRaw(out, FixedBytes(v, 4))

WriteFixed64(out, v) == WriteRaw(out, FixedBytes(v, 8))

\* The value assembled with the first byte highest.
FixedValue_HighFirst(ptr, n) ==
    [i \in 0..(8 * n - 1) |-> BitOf(At(ptr, n - 1 - (i \div 8)), i % 8)]

\* v = ptr[0] | ptr[1] << 8 | ...
FixedValue(ptr, n) == [i \in 0..(8 * n - 1) |-> BitOf(At(ptr, i \div 8), i % 8)]

\* ReadFixed32 (width 4) and ReadFixed64 (width 8).  When Next fails it
\* leaves n unwritten, and the test n > 0 and the call BackUp(n) read an
\* uninitialised variable: n is junk there.  v is stored only on success.
ReadFixed(in, width, junk) ==
    Bind(ZeroCopyInputStream_Next(in, junk), LAMBDA r :
    Bind(IF r.ok THEN r.size ELSE junk, LAMBDA n :
    IF ~r.ok \/ n < width
    THEN IF n > 0
         THEN Bind(ZeroCopyInputStream_BackUp(r.s, n), LAMBDA b :
                   [s |-> b.s, ok |-> FALSE, raised |-> b.raised, v |-> << >>])
         ELSE [s |-> r.s, ok |-> FALSE, raised |-> FALSE, v |-> << >>]
    ELSE IF n > width
    THEN Bind(ZeroCopyInputStream_BackUp(r.s, n - width), LAMBDA b :
              [s |-> b.s, ok |-> ~b.raised, raised |-> b.raised,
               v |-> FixedValue(r.block, width)])
    ELSE [s |-> r.s, ok |-> TRUE, raised |-> FALSE, v |-> FixedValue(r.block, width)]))

\* A reader that gathers its four bytes across blocks.
ReadFixed32_Stitching(in, junk) ==
    Bind(ReadRaw(in, 4, junk), LAMBDA c :
         [s |-> c.s, ok |-> c.ok, raised |-> c.raised,
          v |-> IF c.ok THEN FixedValue(c.out, 4) ELSE << >>])

ReadFixed32(in, junk) == ReadFixed(in, 4, junk)

ReadFixed64(in, junk) == ReadFixed(in, 8, junk)

\* ------------------------------------------------------------------------
\* Length-delimited codec
\* ------------------------------------------------------------------------

\* len is a size_t; WriteVarint32 takes it as a uint32_t.
WriteLengthDelimitedBytes(out, data) ==
    Bind(WriteVarint32(out, UInt(32, Len(data))), LAMBDA a :
         IF ~a.ok THEN a ELSE WriteRaw(a.s, data))

\* out is the span returned; owned says that persistent_buffer holds a
\* vector afterwards (the caller passes an empty pointer), of which out is
\* then a view.
ReadLengthDelimitedBytes(in, junk) ==
    Bind(ReadVarint32(in, junk), LAMBDA l :
    IF ~l.ok
    THEN [s |-> l.s, ok |-> FALSE, raised |-> l.raised, out |-> << >>, owned |-> FALSE]
    ELSE Bind(ToSize(l.out_val), LAMBDA length :
         Bind(ZeroCopyInputStream_Next(l.s, junk), LAMBDA r :
         IF ~r.ok
         THEN [s |-> r.s, ok |-> FALSE, raised |-> FALSE, out |-> << >>, owned |-> FALSE]
         ELSE IF r.size >= length
         THEN Bind(ZeroCopyInputStream_BackUp(r.s, r.size - length), LAMBDA b :
                   [s |-> b.s, ok |-> ~b.raised, raised |-> b.raised,
                    out |-> Slice(r.block, 0, length), owned |-> FALSE])
         ELSE Bind(ReadRaw(r.s, length, junk), LAMBDA c :
                   [s |-> c.s, ok |-> c.ok, raised |-> c.raised,
                    out |-> IF c.ok THEN c.out ELSE << >>, owned |-> TRUE]))))

\* ------------------------------------------------------------------------
\* Tagged values
\* ------------------------------------------------------------------------

Type_INT32 == 1

Type_FLOAT32 == 2

Type_STRING == 3

SerializeInt32(out, value) ==
    Bind(WriteRaw(out, << Type_INT32 >>), LAMBDA a :
         IF ~a.ok THEN a ELSE WriteFixed32(a.s, Int32ToUInt32(value)))

\* stored says that value was assigned; value is then what it holds.
\* A reader that takes the payload before it looks at the tag.
DeserializeInt32_PayloadFirst(in, junk) ==
    Bind(ReadRaw(in, 1, junk), LAMBDA t :
    IF ~t.ok
    THEN [s |-> t.s, ok |-> FALSE, raised |-> t.raised, stored |-> FALSE, value |-> 0]
    ELSE Bind(ReadFixed32(t.s, junk), LAMBDA f :
         IF ~f.ok \/ t.out[1] # Type_INT32
         THEN [s |-> f.s, ok |-> FALSE, raised |-> f.raised, stored |-> FALSE, value |-> 0]
         ELSE [s |-> f.s, ok |-> TRUE, raised |-> FALSE, stored |-> TRUE,
               value |-> UInt32ToInt32(f.v)]))

DeserializeInt32(in, junk) ==
    Bind(ReadRaw(in, 1, junk), LAMBDA t :
    IF ~t.ok
    THEN [s |-> t.s, ok |-> FALSE, raised |-> t.raised, stored |-> FALSE, value |-> 0]
    ELSE IF t.out[1] # Type_INT32
    THEN [s |-> t.s, ok |-> FALSE, raised |-> FALSE, stored |-> FALSE, value |-> 0]
    ELSE Bind(ReadFixed32(t.s, junk), LAMBDA f :
         IF ~f.ok
         THEN [s |-> f.s, ok |-> FALSE, raised |-> f.raised, stored |-> FALSE, value |-> 0]
         ELSE [s |-> f.s, ok |-> TRUE, raised |-> FALSE, stored |-> TRUE,
               value |-> UInt32ToInt32(f.v)]))

SerializeFloat32(out, value) ==
    Bind(WriteRaw(out, << Type_FLOAT32 >>), LAMBDA a :
         IF ~a.ok THEN a ELSE WriteFixed32(a.s, FloatToBits(value)))

DeserializeFloat32(in, junk) ==
    Bind(ReadRaw(in, 1, junk), LAMBDA t :
    IF ~t.ok
    THEN [s |-> t.s, ok |-> FALSE, raised |-> t.raised, stored |-> FALSE, value |-> 0]
    ELSE IF t.out[1] # Type_FLOAT32
    THEN [s |-> t.s, ok |-> FALSE, raised |-> FALSE, stored |-> FALSE, value |-> 0]
    ELSE Bind(ReadFixed32(t.s, junk), LAMBDA f :
         IF ~f.ok
         THEN [s |-> f.s, ok |-> FALSE, raised |-> f.raised, stored |-> FALSE, value |-> 0]
         ELSE [s |-> f.s, ok |-> TRUE, raised |-> FALSE, stored |-> TRUE,
               value |-> BitsToFloat(f.v)]))

SerializeString(out, str) ==
    Bind(WriteRaw(out, << Type_STRING >>), LAMBDA a :
    IF ~a.ok THEN a
    ELSE Bind(WriteVarint32(a.s, UInt(32, Len(str))), LAMBDA b :
              IF ~b.ok THEN b ELSE WriteRaw(b.s, str)))

\* str_view is the view returned; owned says it views str, the copy made of
\* the persistent buffer.
DeserializeString(in, junk) ==
    Bind(ReadLengthDelimitedBytes(in, junk), LAMBDA r :
    IF ~r.ok
    THEN [s |-> r.s, ok |-> FALSE, raised |-> r.raised, str_view |-> << >>,
          owned |-> FALSE]
    ELSE [s |-> r.s, ok |-> TRUE, raised |-> FALSE, str_view |-> r.out,
          owned |-> r.owned])

\* ------------------------------------------------------------------------
\* Drivers: what the state machines share
\* ------------------------------------------------------------------------

\* Values an uninitialised variable or an out-of-range read can yield.
Junk == {0, 1, 255}

MaxData == 3

MaxBackUp == 3

MaxCalls == 3

MaxOver == 2

Iota(from, n) == [i \in 1..n |-> from + i - 1]

Clear(s) == [s EXCEPT !.ev = << >>]

\* The call just made: op and arg name it, ok / raised / out are what it
\* returned.
Call(op, arg, r, out) ==
    [op |-> op, arg |-> arg, ok |-> r.ok, raised |-> r.raised, out |-> out]

NoCall == [op |-> "none", arg |-> 0, ok |-> TRUE, raised |-> FALSE, out |-> << >>]

\* avail after the Next / BackUp calls of a trace: a successful Next exposes
\* a block of n bytes, a BackUp within what is left returns count of them.
RECURSIVE AvailAfter(_, _)
AvailAfter(a, ev) ==
    IF ev = << >> THEN a
    ELSE LET e == Head(ev)
         IN  AvailAfter(IF e.e = "Next" THEN (IF e.ok THEN e.n ELSE a)
                        ELSE IF e.n <= a THEN a - e.n ELSE a,
                        Tail(ev))

RECURSIVE TotalLen(_)
TotalLen(chunks) == IF chunks = << >> THEN 0 ELSE Len(Head(chunks)) + TotalLen(Tail(chunks))

\* The driver makes at most MaxCalls calls on an output stream (a
\* VectorOutputStream grows without end), and never lets the byte count of a
\* MultiBufferInputStream run more than MaxOver past the bytes its chunks
\* hold.
Bounded(s) ==
    /\ IsOutput(s) => calls < MaxCalls
    /\ s.kind = "MultiBufferInputStream" => s.total_ <= TotalLen(s.chunks_) + MaxOver

Ghosts(s) ==
    /\ avail' = AvailAfter(avail, s.ev)
    /\ calls' = IF IsOutput(s) THEN calls + 1 ELSE calls
    /\ UNCHANGED <<wr, rd>>

\* ------------------------------------------------------------------------
\* SpecStream: Next, BackUp, Skip, ReadRaw and WriteRaw on every backend
\* ------------------------------------------------------------------------

\* The chunk lists, by the lengths of their chunks; chunk j holds the bytes
\* 10 j + 1, 10 j + 2, ..., so that a byte tells the chunk it comes from.
ChunkShapes ==
    {<< >>, <<0>>, <<2>>, <<1, 2>>, <<2, 2>>, <<2, 0, 1>>, <<1, 2, 1>>}

ChunkLists == {[j \in 1..Len(lens) |-> Iota(10 * j + 1, lens[j])] : lens \in ChunkShapes}

BlockHints == {2, 70}

StreamInits ==
    {BufferInputStream(Iota(1, n), n) : n \in 0..MaxData}
    \cup {MultiBufferInputStream(c) : c \in ChunkLists}
    \cup {BufferOutputStream(Fill(n, 0), n) : n \in 0..(MaxData + 2)}
    \cup {VectorOutputStream(h) : h \in BlockHints}

BackUpCounts == 0..MaxBackUp \cup {10}

RawWrites == {Iota(1, 1), Iota(1, 5), Iota(1, kMinBlockSize)}

StreamInit ==
    /\ st \in StreamInits
    /\ last = NoCall
    /\ blk = << >>
    /\ avail = 0
    /\ calls = 0
    /\ wr = << >>
    /\ rd = 0

DoNextIn ==
    /\ IsInput(st)
    /\ \E junk \in Junk :
         \E r \in {ZeroCopyInputStream_Next(Clear(st), junk)} :
             /\ Bounded(r.s)
             /\ st' = r.s
             /\ last' = Call("Next", 0, [ok |-> r.ok, raised |-> FALSE], r.block)
             /\ blk' = IF r.ok THEN r.block ELSE blk
             /\ Ghosts(r.s)

DoNextOut ==
    /\ IsOutput(st)
    /\ \E r \in {ZeroCopyOutputStream_Next(Clear(st))} :
           /\ Bounded(r.s)
           /\ st' = r.s
           /\ last' = Call("Next", 0, [ok |-> r.ok, raised |-> FALSE], r.size)
           /\ blk' = blk
           /\ Ghosts(r.s)

DoBackUp ==
    \E count \in BackUpCounts :
      \E r \in {IF IsInput(st) THEN ZeroCopyInputStream_BackUp(Clear(st), count)
                ELSE ZeroCopyOutputStream_BackUp(Clear(st), count)} :
          /\ Bounded(r.s)
          /\ st' = r.s
          /\ last' = Call("BackUp", count, [ok |-> ~r.raised, raised |-> r.raised], << >>)
          /\ blk' = blk
          /\ Ghosts(r.s)

DoReadRaw ==
    /\ IsInput(st)
    /\ \E size \in 0..MaxData, junk \in Junk :
         \E r \in {ReadRaw(Clear(st), size, junk)} :
             /\ Bounded(r.s)
             /\ st' = r.s
             /\ last' = Call("ReadRaw", size, r, r.out)
             /\ blk' = blk
             /\ Ghosts(r.s)

DoSkip ==
    /\ IsInput(st)
    /\ \E count \in 0..MaxData, junk \in Junk :
         \E r \in {Skip(Clear(st), count, junk)} :
             /\ Bounded(r.s)
             /\ st' = r.s
             /\ last' = Call("Skip", count, r, << >>)
             /\ blk' = blk
             /\ Ghosts(r.s)

DoWriteRaw ==
    /\ IsOutput(st)
    /\ \E src \in RawWrites :
         \E r \in {WriteRaw(Clear(st), src)} :
             /\ Bounded(r.s)
             /\ st' = r.s
             /\ last' = Call("WriteRaw", src, r, << >>)
             /\ blk' = blk
             /\ Ghosts(r.s)

StreamNext == DoNextIn \/ DoNextOut \/ DoBackUp \/ DoReadRaw \/ DoSkip \/ DoWriteRaw

SpecStream == StreamInit /\ [][StreamNext]_vars

\* ------------------------------------------------------------------------
\* SpecDecode: the decoders on input streams over short byte strings
\* ------------------------------------------------------------------------

MaxLen == 3

\* Two tags, which are also short lengths, and a byte with the continuation
\* bit set.
DecodeBytes == {Type_INT32, Type_FLOAT32, 128}

RECURSIVE SeqsUpTo(_, _)
SeqsUpTo(S, n) ==
    IF n = 0 THEN {<< >>}
    ELSE LET shorter == SeqsUpTo(S, n - 1)
         IN  shorter \cup {Append(q, b) : q \in {x \in shorter : Len(x) = n - 1}, b \in S}

\* Encoded values as the serializers write them, and a varint that never
\* ends.
Samples ==
    {<<1, 42, 0, 0, 0>>, <<2, 0, 0, 128, 127>>, <<3, 2, 104, 105>>, <<2, 104, 105, 106>>,
     <<128, 128, 128, 128, 128>>}

ShortData == SeqsUpTo(DecodeBytes, MaxLen)

\* Every way to cut a byte string into non-empty chunks.
RECURSIVE Splits(_)
Splits(data) ==
    IF data = << >> THEN {<< >>}
    ELSE UNION {{<< SubSeq(data, 1, k) >> \o rest :
                    rest \in Splits(SubSeq(data, k + 1, Len(data)))} : k \in 1..Len(data)}

\* Cut after the first k bytes.
CutAt(data, k) == << SubSeq(data, 1, k), SubSeq(data, k + 1, Len(data)) >>

\* Varints whose continuation bit never clears within the width guard, one
\* byte more than each reader may look at.
Unterminated == {Fill(kMaxVarint32Bytes + 1, 255), Fill(kMaxVarint64Bytes + 1, 255)}

\* Terminated varints of full length whose last group does not fit the
\* width: FF FF FF FF 7F and nine FF followed by 7F.
Overflowing ==
    {Fill(kMaxVarint32Bytes - 1, 255) \o <<127>>, Fill(kMaxVarint64Bytes - 1, 255) \o <<127>>}

\* One chunk per byte.
Singles(data) == [i \in 1..Len(data) |-> << data[i] >>]

DecodeInits ==
    {BufferInputStream(d, Len(d)) : d \in ShortData \cup Samples \cup Unterminated \cup Overflowing}
    \cup UNION {{MultiBufferInputStream(c) : c \in Splits(d)} : d \in ShortData}
    \cup {MultiBufferInputStream(CutAt(d, 2)) : d \in Samples}
    \cup {MultiBufferInputStream(Singles(d)) : d \in Unterminated}

RECURSIVE Concat(_)
Concat(chunks) == IF chunks = << >> THEN << >> ELSE Head(chunks) \o Concat(Tail(chunks))

\* The bytes an input stream has yet to hand out: what Next would return
\* from here on, in order.
Remaining(s) ==
    IF s.kind = "BufferInputStream" THEN Slice(s.data_, s.pos_, s.size_ - s.pos_)
    ELSE ChunkTail(s.chunks_, s.idx_ - 1, s.backed_up_, 0)
         \o Concat(SubSeq(s.chunks_, s.idx_ + 1, Len(s.chunks_)))

\* What a Deserialize call with the expected tag is up against, given the
\* bytes that remain: a first byte that is another tag, or too few bytes for
\* the five-byte value.
FailureClass(rest, tag) ==
    IF rest # << >> /\ rest[1] # tag THEN "mismatch"
    ELSE IF Len(rest) < 5 THEN "truncated"
    ELSE "none"

\* A decoder call: out is the value or view it produced, flag whether it
\* stored a value (Deserialize) or filled the persistent buffer (length-
\* delimited), class the FailureClass it faced, adv how far ByteCount() moved.
Decoded(op, r, out, flag, class) ==
    [op |-> op, arg |-> 0, ok |-> r.ok, raised |-> r.raised, out |-> out,
     flag |-> flag, class |-> class, adv |-> ByteCount(r.s) - ByteCount(st)]

DecodeInit ==
    /\ st \in DecodeInits
    /\ last = [op |-> "none", arg |-> 0, ok |-> TRUE, raised |-> FALSE, out |-> << >>,
               flag |-> FALSE, class |-> "none", adv |-> 0]
    /\ blk = << >>
    /\ avail = 0
    /\ calls = 0
    /\ wr = << >>
    /\ rd = 0

Decode(r, call) ==
    /\ Bounded(r.s)
    /\ st' = r.s
    /\ last' = call
    /\ blk' = blk
    /\ Ghosts(r.s)

DoReadVarint32 ==
    \E junk \in Junk :
      \E r \in {ReadVarint32(Clear(st), junk)} :
          Decode(r, Decoded("ReadVarint32", r, r.out_val, FALSE, "none"))

DoReadVarint64 ==
    \E junk \in Junk :
      \E r \in {ReadVarint64(Clear(st), junk)} :
          Decode(r, Decoded("ReadVarint64", r, r.out_val, FALSE, "none"))

DoReadFixed32 ==
    \E junk \in Junk :
      \E r \in {ReadFixed32(Clear(st), junk)} :
          Decode(r, Decoded("ReadFixed32", r, r.v, r.ok, "none"))

DoReadFixed64 ==
    \E junk \in Junk :
      \E r \in {ReadFixed64(Clear(st), junk)} :
          Decode(r, Decoded("ReadFixed64", r, r.v, r.ok, "none"))

DoReadLengthDelimitedBytes ==
    \E junk \in Junk :
      \E r \in {ReadLengthDelimitedBytes(Clear(st), junk)} :
          Decode(r, Decoded("ReadLengthDelimitedBytes", r, r.out, r.owned, "none"))

DoDeserializeInt32 ==
    \E junk \in Junk :
      \E r \in {DeserializeInt32(Clear(st), junk)} :
          Decode(r, Decoded("DeserializeInt32", r, r.value, r.stored,
                            FailureClass(Remaining(st), Type_INT32)))

DoDeserializeFloat32 ==
    \E junk \in Junk :
      \E r \in {DeserializeFloat32(Clear(st), junk)} :
          Decode(r, Decoded("DeserializeFloat32", r, r.value, r.stored,
                            FailureClass(Remaining(st), Type_FLOAT32)))

DoDeserializeString ==
    \E junk \in Junk :
      \E r \in {DeserializeString(Clear(st), junk)} :
          Decode(r, Decoded("DeserializeString", r, r.str_view, r.owned, "none"))

DecodeNext ==
    \/ DoReadVarint32 \/ DoReadVarint64 \/ DoReadFixed32 \/ DoReadFixed64
    \/ DoReadLengthDelimitedBytes
    \/ DoDeserializeInt32 \/ DoDeserializeFloat32 \/ DoDeserializeString

SpecDecode == DecodeInit /\ [][DecodeNext]_vars

\* ------------------------------------------------------------------------
\* SpecRoundTrip: values written to an output stream, then read back
\* through a BufferInputStream over the bytes the stream holds
\* ------------------------------------------------------------------------

MaxItems == 2

\* The w-bit pattern whose set bits are those of ones.
Bits(w, ones) == [i \in 0..(w - 1) |-> IF i \in ones THEN 1 ELSE 0]

\* 0, 127, 300, 2^14, 2^21 and 2^32 - 1: every encoded length from 1 to 5.
Varints32 ==
    {UInt(32, 0), UInt(32, 127), UInt(32, 300), UInt(32, 16384), UInt(32, 2097152),
     Bits(32, 0..31)}

\* 300, 2^35, 2^56 and 2^64 - 1: encoded lengths 2, 6, 9 and 10.
Varints64 == {UInt(64, 300), Bits(64, {35}), Bits(64, {56}), Bits(64, 0..63)}

\* 0x04030201 and 0xFFFFFF80
Fixeds32 == {UInt(32, 67305985), Bits(32, 7..31)}

\* 0x0807060504030201
Fixeds64 == {Bits(64, {0, 9, 16, 17, 26, 32, 34, 41, 42, 48, 49, 50, 59})}

\* 0, 42, -1, INT32_MAX and INT32_MIN
Int32s == {0, 42, -1, 2147483647, -2147483647 - 1}

\* 1.0, -0.0, +Infinity, -Infinity, a quiet NaN and a signalling NaN with the
\* sign bit set
Floats ==
    {[sign |-> 0, exponent |-> 127, mantissa |-> 0],
     [sign |-> 1, exponent |-> 0, mantissa |-> 0],
     [sign |-> 0, exponent |-> 255, mantissa |-> 0],
     [sign |-> 1, exponent |-> 255, mantissa |-> 0],
     [sign |-> 0, exponent |-> 255, mantissa |-> 4194304],
     [sign |-> 1, exponent |-> 255, mantissa |-> 1]}

\* "", "hi" and a string of three bytes
Strings == {<< >>, <<104, 105>>, <<3, 0, 255>>}

Payloads == {<< >>, <<7, 8, 9>>}

\* The output streams: a caller's buffer of 5 and of 16 bytes, and a vector
\* with the minimum block size.
OutCaps == {5, 16}

RoundTripInits ==
    {BufferOutputStream(Fill(n, 0), n) : n \in OutCaps}
    \cup {VectorOutputStream(kMinBlockSize)}

\* A write made: the function, the value it was given, whether it returned
\* true, and the class of the stream it wrote to.
Item(op, v, r) == [op |-> op, v |-> v, ok |-> r.ok, via |-> st.kind]

RoundTripInit ==
    /\ st \in RoundTripInits
    /\ last = [op |-> "none", arg |-> 0, ok |-> TRUE, raised |-> FALSE, out |-> << >>,
               flag |-> FALSE, class |-> "none", adv |-> 0]
    /\ blk = << >>
    /\ avail = 0
    /\ calls = 0
    /\ wr = << >>
    /\ rd = 0

Write(op, v, r) ==
    /\ st' = r.s
    /\ last' = Decoded(op, r, << >>, FALSE, "none")
    /\ wr' = Append(wr, Item(op, v, r))
    /\ avail' = AvailAfter(avail, r.s.ev)
    /\ calls' = calls + 1
    /\ UNCHANGED <<blk, rd>>

CanWrite == IsOutput(st) /\ Len(wr) < MaxItems

DoWriteVarint32 ==
    /\ CanWrite
    /\ \E v \in Varints32 :
         \E r \in {WriteVarint32(Clear(st), v)} : Write("WriteVarint32", v, r)

DoWriteVarint64 ==
    /\ CanWrite
    /\ \E v \in Varints64 :
         \E r \in {WriteVarint64(Clear(st), v)} : Write("WriteVarint64", v, r)

DoWriteFixed32 ==
    /\ CanWrite
    /\ \E v \in Fixeds32 :
         \E r \in {WriteFixed32(Clear(st), v)} : Write("WriteFixed32", v, r)

DoWriteFixed64 ==
    /\ CanWrite
    /\ \E v \in Fixeds64 :
         \E r \in {WriteFixed64(Clear(st), v)} : Write("WriteFixed64", v, r)

DoWriteLengthDelimitedBytes ==
    /\ CanWrite
    /\ \E v \in Payloads :
         \E r \in {WriteLengthDelimitedBytes(Clear(st), v)} :
             Write("WriteLengthDelimitedBytes", v, r)

DoSerializeInt32 ==
    /\ CanWrite
    /\ \E v \in Int32s :
         \E r \in {SerializeInt32(Clear(st), v)} : Write("SerializeInt32", v, r)

DoSerializeFloat32 ==
    /\ CanWrite
    /\ \E v \in Floats :
         \E r \in {SerializeFloat32(Clear(st), v)} : Write("SerializeFloat32", v, r)

DoSerializeString ==
    /\ CanWrite
    /\ \E v \in Strings :
         \E r \in {SerializeString(Clear(st), v)} : Write("SerializeString", v, r)

\* The bytes an output stream holds for its caller: buffer() of a
\* VectorOutputStream, the first ByteCount() bytes of the buffer given to a
\* BufferOutputStream.
Written(s) ==
    IF s.kind = "VectorOutputStream" THEN VectorOutputStream_buffer(s)
    ELSE Slice(s.data_, 0, BufferOutputStream_ByteCount(s))

\* BufferInputStream bis(vos.buffer().data(), vos.buffer().size())
Reopen ==
    /\ IsOutput(st)
    /\ wr # << >>
    /\ st' = BufferInputStream(Written(st), Len(Written(st)))
    /\ last' = [op |-> "Reopen", arg |-> 0, ok |-> TRUE, raised |-> FALSE,
                out |-> Written(st), flag |-> FALSE, class |-> "none", adv |-> 0]
    /\ avail' = 0
    /\ UNCHANGED <<blk, calls, wr, rd>>

\* The reader is called for the next value the writer wrote.
CanReadBack(op) == IsInput(st) /\ rd < Len(wr) /\ wr[rd + 1].op = op

ReadBack(r, call) ==
    /\ st' = r.s
    /\ last' = call
    /\ rd' = rd + 1
    /\ avail' = AvailAfter(avail, r.s.ev)
    /\ UNCHANGED <<blk, calls, wr>>

DoReadBackVarint32 ==
    /\ CanReadBack("WriteVarint32")
    /\ \E junk \in Junk :
         \E r \in {ReadVarint32(Clear(st), junk)} :
             ReadBack(r, Decoded("ReadVarint32", r, r.out_val, FALSE, "none"))

DoReadBackVarint64 ==
    /\ CanReadBack("WriteVarint64")
    /\ \E junk \in Junk :
         \E r \in {ReadVarint64(Clear(st), junk)} :
             ReadBack(r, Decoded("ReadVarint64", r, r.out_val, FALSE, "none"))

DoReadBackFixed32 ==
    /\ CanReadBack("WriteFixed32")
    /\ \E junk \in Junk :
         \E r \in {ReadFixed32(Clear(st), junk)} :
             ReadBack(r, Decoded("ReadFixed32", r, r.v, r.ok, "none"))

DoReadBackFixed64 ==
    /\ CanReadBack("WriteFixed64")
    /\ \E junk \in Junk :
         \E r \in {ReadFixed64(Clear(st), junk)} :
             ReadBack(r, Decoded("ReadFixed64", r, r.v, r.ok, "none"))

DoReadBackLengthDelimitedBytes ==
    /\ CanReadBack("WriteLengthDelimitedBytes")
    /\ \E junk \in Junk :
         \E r \in {ReadLengthDelimitedBytes(Clear(st), junk)} :
             ReadBack(r,
                      Decoded("ReadLengthDelimitedBytes", r, r.out, r.owned, "none"))

DoReadBackInt32 ==
    /\ CanReadBack("SerializeInt32")
    /\ \E junk \in Junk :
         \E r \in {DeserializeInt32(Clear(st), junk)} :
             ReadBack(r,
                      Decoded("DeserializeInt32", r, r.value, r.stored, "none"))

DoReadBackFloat32 ==
    /\ CanReadBack("SerializeFloat32")
    /\ \E junk \in Junk :
         \E r \in {DeserializeFloat32(Clear(st), junk)} :
             ReadBack(r,
                      Decoded("DeserializeFloat32", r, r.value, r.stored, "none"))

DoReadBackString ==
    /\ CanReadBack("SerializeString")
    /\ \E junk \in Junk :
         \E r \in {DeserializeString(Clear(st), junk)} :
             ReadBack(r,
                      Decoded("DeserializeString", r, r.str_view, r.owned, "none"))

RoundTripNext ==
    \/ DoWriteVarint32 \/ DoWriteVarint64 \/ DoWriteFixed32 \/ DoWriteFixed64
    \/ DoWriteLengthDelimitedBytes
    \/ DoSerializeInt32 \/ DoSerializeFloat32 \/ DoSerializeString
    \/ Reopen
    \/ DoReadBackVarint32 \/ DoReadBackVarint64 \/ DoReadBackFixed32 \/ DoReadBackFixed64
    \/ DoReadBackLengthDelimitedBytes
    \/ DoReadBackInt32 \/ DoReadBackFloat32 \/ DoReadBackString

SpecRoundTrip == RoundTripInit /\ [][RoundTripNext]_vars

\* ------------------------------------------------------------------------
\* Properties of SpecStream
\* ------------------------------------------------------------------------

\* Every BackUp of a trace that asks for more than is left of the block last
\* returned raises.
RECURSIVE RaisesBeyond(_, _)
RaisesBeyond(a, ev) ==
    IF ev = << >> THEN TRUE
    ELSE /\ (Head(ev).e = "BackUp" /\ Head(ev).n > a) => Head(ev).raised
         /\ RaisesBeyond(AvailAfter(a, << Head(ev) >>), Tail(ev))

\* C3 (as claimed): on a MultiBufferInputStream, when BackUp(k), k >= 1, has
\* been applied to a block B that Next returned and of which nothing had been
\* backed up yet, the following Next succeeds and returns the last k bytes of
\* B (the bytes identify their chunk).
C3_NextReservesBackedUpTail ==
    [][(/\ st.kind = "MultiBufferInputStream"
        /\ last.op = "BackUp" /\ ~last.raised /\ last.arg >= 1
        /\ avail + last.arg = Len(blk)
        /\ last'.op = "Next")
       => (last'.ok /\ last'.out = Slice(blk, avail, last.arg))]_vars

\* C8: on every backend, a BackUp (called by the driver or from inside
\* WriteRaw, ReadRaw or Skip) whose count exceeds the bytes of the last block
\* not yet backed up raises, and the raising call leaves the stream as it was:
\* the count is neither clamped nor applied.
C8_BackUpBeyondBlockRaises ==
    [][/\ RaisesBeyond(avail, st'.ev)
       /\ (last'.op = "BackUp" /\ last'.arg > avail)
            => (last'.raised /\ Clear(st') = Clear(st))]_vars

\* C8 witness: WriteRaw of 5 bytes on a VectorOutputStream, then BackUp(10),
\* which raised.
C8_Witness ==
    /\ st.kind = "VectorOutputStream"
    /\ last.op = "BackUp" /\ last.arg = 10 /\ last.raised
    /\ avail = 5 /\ ByteCount(st) = 5

\* ------------------------------------------------------------------------
\* Properties of SpecDecode
\* ------------------------------------------------------------------------

\* The varint at the head of rest, read off the wire format: its length is
\* the position of the first byte below 128 (0 if there is none), its value
\* the base-128 number whose digits are the low seven bits, lowest first.
PrefixLen(rest) ==
    IF \E i \in 1..Len(rest) : rest[i] < 128
    THEN CHOOSE i \in 1..Len(rest) : rest[i] < 128 /\ \A j \in 1..(i - 1) : rest[j] >= 128
    ELSE 0

RECURSIVE PrefixVal(_, _)
PrefixVal(rest, n) ==
    IF n = 0 THEN 0 ELSE (rest[n] % 128) * 128 ^ (n - 1) + PrefixVal(rest, n - 1)

\* C2: ReadLengthDelimitedBytes on a MultiBufferInputStream that takes the
\* owned-buffer path (the block after the prefix holds fewer than length
\* bytes) while at least length bytes follow the prefix in the stream
\* succeeds, and returns exactly the length bytes that follow the prefix.
C2_StraddlingPayloadRead ==
    [][(/\ st.kind = "MultiBufferInputStream"
        /\ last'.op = "ReadLengthDelimitedBytes" /\ last'.flag
        /\ PrefixLen(Remaining(st)) \in 1..kMaxVarint32Bytes
        /\ Len(Remaining(st)) - PrefixLen(Remaining(st))
             >= PrefixVal(Remaining(st), PrefixLen(Remaining(st))))
       => (/\ last'.ok
           /\ last'.out = Slice(Remaining(st), PrefixLen(Remaining(st)),
                                PrefixVal(Remaining(st), PrefixLen(Remaining(st)))))]_vars

\* C5: DeserializeString on input whose first byte is not the STRING tag
\* 0x03 returns failure.
C5_StringTagChecked ==
    [][(/\ last'.op = "DeserializeString"
        /\ Remaining(st) # << >>
        /\ Remaining(st)[1] # Type_STRING)
       => ~last'.ok]_vars

IsDeserialize(op) == op \in {"DeserializeInt32", "DeserializeFloat32"}

\* Everything a caller of a Deserialize function can observe of the call.
Observed(call) == << call.ok, call.raised, call.flag, call.out, call.adv >>

\* C6: a DeserializeInt32 / DeserializeFloat32 call that fails on a
\* mismatching tag and one that fails on truncated input differ in what the
\* caller observes.
C6_FailureKindsDistinguishable ==
    [][(/\ IsDeserialize(last.op) /\ ~last.ok
        /\ IsDeserialize(last'.op) /\ ~last'.ok
        /\ {last.class, last'.class} = {"mismatch", "truncated"})
       => Observed(last) # Observed(last')]_vars

\* The bytes each fixed-width reader needs.
Needs(op) ==
    CASE op = "ReadFixed32" -> 4
      [] op = "ReadFixed64" -> 8
      [] IsDeserialize(op)  -> 5
      [] OTHER              -> 0

\* A BackUp in the trace that does not follow a successful Next: its count
\* is not one that Next returned.
RECURSIVE StrayBackUp(_, _)
StrayBackUp(ev, have) ==
    IF ev = << >> THEN FALSE
    ELSE IF Head(ev).e = "Next" THEN StrayBackUp(Tail(ev), Head(ev).ok)
    ELSE ~have \/ StrayBackUp(Tail(ev), have)

\* C7: ReadFixed32, ReadFixed64, DeserializeInt32 and DeserializeFloat32 on
\* a buffer holding fewer bytes than they need return false, raise nothing
\* and make no BackUp call with a count that Next did not return.
C7_ShortInputFailsCleanly ==
    [][(/\ st.kind = "BufferInputStream"
        /\ Needs(last'.op) > 0
        /\ Len(Remaining(st)) < Needs(last'.op))
       => (~last'.ok /\ ~last'.raised /\ ~StrayBackUp(st'.ev, FALSE))]_vars

\* ------------------------------------------------------------------------
\* Properties of SpecRoundTrip
\* ------------------------------------------------------------------------

\* The wire formats, stated on their own: the number held by the n bits of
\* a pattern from bit b up, and with it the base-128 groups of a varint and
\* the bytes of a fixed-width value.
RECURSIVE Field(_, _, _)
Field(v, b, n) ==
    IF n = 0 THEN 0
    ELSE (IF b \in DOMAIN v THEN v[b] ELSE 0) + 2 * Field(v, b + 1, n - 1)

Groups(v) ==
    IF \A i \in DOMAIN v : v[i] = 0 THEN 1
    ELSE ((CHOOSE i \in DOMAIN v : v[i] = 1 /\ \A j \in DOMAIN v : j > i => v[j] = 0) \div 7) + 1

VarintWire(v) ==
    [i \in 1..Groups(v) |-> Field(v, 7 * (i - 1), 7) + (IF i < Groups(v) THEN 128 ELSE 0)]

FixedWire(v, n) == [i \in 1..n |-> Field(v, 8 * (i - 1), 8)]

\* The four bytes of an int32_t in two's complement, lowest first.
Int32Wire(value) == [i \in 1..4 |-> (value \div 256 ^ (i - 1)) % 256]

\* The four bytes of an IEEE-754 single, lowest first.
Float32Wire(f) ==
    << f.mantissa % 256, (f.mantissa \div 256) % 256,
       (f.mantissa \div 65536) + 128 * (f.exponent % 2),
       (f.exponent \div 2) + 128 * f.sign >>

Wire(item) ==
    CASE item.op \in {"WriteVarint32", "WriteVarint64"} -> VarintWire(item.v)
      [] item.op = "WriteFixed32" -> FixedWire(item.v, 4)
      [] item.op = "WriteFixed64" -> FixedWire(item.v, 8)
      [] item.op = "WriteLengthDelimitedBytes" -> VarintWire(UInt(32, Len(item.v))) \o item.v
      [] item.op = "SerializeInt32" -> << 1 >> \o Int32Wire(item.v)
      [] item.op = "SerializeFloat32" -> << 2 >> \o Float32Wire(item.v)
      [] item.op = "SerializeString" -> << 3 >> \o VarintWire(UInt(32, Len(item.v))) \o item.v

RECURSIVE WireOf(_, _)
WireOf(items, n) == IF n = 0 THEN << >> ELSE WireOf(items, n - 1) \o Wire(items[n])

\* The first n writes all succeeded, on a stream of class via, and were
\* calls of the functions ops.
Wrote(n, via, ops) ==
    /\ n <= Len(wr)
    /\ \A j \in 1..n : wr[j].ok /\ wr[j].via = via /\ wr[j].op \in ops

\* The bytes the write just made put into the caller's buffer.
JustWritten == Slice(st.data_, st.pos_ - last.adv, last.adv)

\* C1: a string written by SerializeString alone (here through a
\* BufferOutputStream) and read by DeserializeString from a BufferInputStream
\* over the bytes written comes back: the call succeeds and the view equals
\* the string.
C1_StringRoundTrip ==
    (/\ IsInput(st) /\ rd = 1 /\ Len(wr) = 1
     /\ Wrote(1, "BufferOutputStream", {"SerializeString"})
     /\ last.op = "DeserializeString")
    => (last.ok /\ last.out = wr[1].v)

\* C4: after successful WriteVarint32 / WriteVarint64 / WriteFixed32 /
\* WriteFixed64 calls on a VectorOutputStream, buffer() is the concatenation
\* of the bytes written, and a BufferInputStream over it returns the values
\* in the order written.
C4_VectorBufferHoldsWrites ==
    (/\ IsInput(st)
     /\ Wrote(Len(wr), "VectorOutputStream",
              {"WriteVarint32", "WriteVarint64", "WriteFixed32", "WriteFixed64"}))
    => (/\ st.data_ = WireOf(wr, Len(wr))
        /\ rd >= 1 => (last.ok /\ last.out = wr[rd].v))

SerializeOps == {"SerializeInt32", "SerializeFloat32"}

\* C9: SerializeInt32 / SerializeFloat32 into a BufferOutputStream with five
\* free bytes succeed and write five bytes, the tag and the value's pattern
\* lowest byte first; DeserializeInt32 / DeserializeFloat32 over the bytes
\* so written succeed and return the value, bit for bit.
C9_TaggedFixedRoundTrip ==
    /\ (/\ st.kind = "BufferOutputStream"
        /\ last.op \in SerializeOps
        /\ st.size_ - (st.pos_ - last.adv) >= 5)
       => (/\ last.ok
           /\ last.adv = 5
           /\ JustWritten = Wire(wr[Len(wr)]))
    /\ (/\ IsInput(st) /\ rd >= 1
        /\ Wrote(rd, "BufferOutputStream", SerializeOps))
       => (/\ last.ok
           /\ last.flag
           /\ last.out = wr[rd].v
           /\ ByteCount(st) = 5 * rd)

C9_Witness ==
    /\ IsInput(st) /\ rd = 1
    /\ Wrote(1, "BufferOutputStream", {"SerializeInt32"})
    /\ wr[1].v = 42
    /\ st.data_ = <<1, 42, 0, 0, 0>>
    /\ last.op = "DeserializeInt32" /\ last.ok /\ last.out = 42

VarintOps == {"WriteVarint32", "WriteVarint64"}

\* C10: WriteVarint32 / WriteVarint64 write the base-128 encoding of the
\* value (300 as AC 02); ReadVarint32 / ReadVarint64 on a BufferInputStream
\* over those bytes, whatever follows them, return true with the value and
\* advance ByteCount() by the encoded length, leaving what follows unread.
C10_VarintRoundTrip ==
    /\ (/\ st.kind = "BufferOutputStream"
        /\ last.op \in VarintOps
        /\ last.ok)
       => JustWritten = VarintWire(wr[Len(wr)].v)
    /\ (/\ IsInput(st) /\ rd >= 1
        /\ Wrote(rd, "BufferOutputStream", VarintOps))
       => (/\ last.ok
           /\ last.out = wr[rd].v
           /\ last.adv = Len(VarintWire(wr[rd].v))
           /\ Remaining(st) = Slice(st.data_, Len(WireOf(wr, rd)),
                                    Len(st.data_) - Len(WireOf(wr, rd))))

C10_Witness ==
    /\ IsInput(st) /\ rd = 1 /\ Len(wr) = 2
    /\ Wrote(1, "BufferOutputStream", {"WriteVarint32"})
    /\ wr[1].v = UInt(32, 300)
    /\ SubSeq(st.data_, 1, 2) = <<172, 2>>
    /\ Len(st.data_) > 2
    /\ last.op = "ReadVarint32" /\ last.ok /\ last.out = UInt(32, 300) /\ last.adv = 2
    /\ ByteCount(st) = 2

\* The number of bits of a pattern up to its highest set bit.
BitLength(v) ==
    IF \A i \in DOMAIN v : v[i] = 0 THEN 0
    ELSE 1 + CHOOSE i \in DOMAIN v : v[i] = 1 /\ \A j \in DOMAIN v : j > i => v[j] = 0

\* C11: WriteVarint32 / WriteVarint64 write ceil(max(1, bitlength(n)) / 7)
\* bytes, at most 5 for a 32-bit and 10 for a 64-bit value, one zero byte
\* for 0; every byte but the last has its high bit set, the last has not.
C11_VarintMinimal ==
    (/\ st.kind = "BufferOutputStream"
     /\ last.op \in VarintOps
     /\ last.ok)
    => (/\ Len(JustWritten) = (Max(1, BitLength(wr[Len(wr)].v)) + 6) \div 7
        /\ Len(JustWritten) = last.adv
        /\ Len(JustWritten) <= (IF last.op = "WriteVarint32" THEN kMaxVarint32Bytes
                                ELSE kMaxVarint64Bytes)
        /\ \A i \in 1..(Len(JustWritten) - 1) : JustWritten[i] >= 128
        /\ JustWritten[Len(JustWritten)] < 128
        /\ BitLength(wr[Len(wr)].v) = 0 => JustWritten = << 0 >>)

C11_Witness ==
    /\ st.kind = "BufferOutputStream"
    /\ last.op = "WriteVarint64" /\ last.ok
    /\ wr[Len(wr)].v = Bits(64, 0..63)
    /\ JustWritten = <<255, 255, 255, 255, 255, 255, 255, 255, 255, 1>>

\* The bytes a varint reader may look at: the width guard in groups.
VarintGuard(op) == IF op = "ReadVarint32" THEN kMaxVarint32Bytes ELSE kMaxVarint64Bytes

\* The first k bytes of rest, as far as there are any, all have the
\* continuation bit set.
AllContinue(rest, k) == \A i \in 1..Min(k, Len(rest)) : rest[i] >= 128

\* The sizes of the blocks the Next calls of a trace returned.
RECURSIVE NextSizes(_)
NextSizes(ev) ==
    IF ev = << >> THEN << >>
    ELSE (IF Head(ev).e = "Next" /\ Head(ev).ok THEN << Head(ev).n >> ELSE << >>)
         \o NextSizes(Tail(ev))

RECURSIVE Sum(_)
Sum(ns) == IF ns = << >> THEN 0 ELSE Head(ns) + Sum(Tail(ns))

\* Every block asked for starts within the first k bytes handed out: no
\* Next is called once k bytes have been seen.
AsksWithin(ev, k) ==
    NextSizes(ev) = << >> \/ Sum(SubSeq(NextSizes(ev), 1, Len(NextSizes(ev)) - 1)) < k

\* C12: on input whose bytes all have the continuation bit set, ReadVarint32
\* returns false having looked at no more than 5 bytes and ReadVarint64 at
\* no more than 10: it does not succeed, and asks for no block beyond them.
C12_UnterminatedVarintRejected ==
    [][(/\ last'.op \in {"ReadVarint32", "ReadVarint64"}
        /\ AllContinue(Remaining(st), VarintGuard(last'.op)))
       => (/\ ~last'.ok
           /\ ~last'.raised
           /\ AsksWithin(st'.ev, VarintGuard(last'.op)))]_vars

C12_Witness ==
    /\ st.kind = "MultiBufferInputStream"
    /\ st.chunks_ = Singles(Fill(kMaxVarint64Bytes + 1, 255))
    /\ last.op = "ReadVarint64" /\ ~last.ok
    /\ Len(NextSizes(st.ev)) = kMaxVarint64Bytes
    /\ st.idx_ = kMaxVarint64Bytes

\* Bit b of the sum over the 7-bit groups of a varint of group_i * 128^i:
\* bit b % 7 of group b \div 7.
GroupBit(rest, b) == BitOf(rest[(b \div 7) + 1] % 128, b % 7)

VarintWidth(op) == IF op = "ReadVarint32" THEN 32 ELSE 64

\* C13: whenever ReadVarint32 / ReadVarint64 returns true, the result equals
\* the sum over the 7-bit groups it read of group_i * 128^i: every bit of
\* every group is in the result, none is dropped above the value's width.
C13_NoSilentTruncation ==
    [][(/\ last'.op \in {"ReadVarint32", "ReadVarint64"}
        /\ last'.ok
        /\ PrefixLen(Remaining(st)) > 0)
       => \A b \in 0..(Max(7 * PrefixLen(Remaining(st)), VarintWidth(last'.op)) - 1) :
            (IF b < VarintWidth(last'.op) THEN last'.out[b] ELSE 0)
              = (IF b < 7 * PrefixLen(Remaining(st)) THEN GroupBit(Remaining(st), b) ELSE 0)]_vars

FixedOps == {"WriteFixed32", "WriteFixed64"}

FixedWidth(op) == IF op \in {"WriteFixed32", "ReadFixed32"} THEN 4 ELSE 8

RECURSIVE FixedTotal(_, _)
FixedTotal(items, n) ==
    IF n = 0 THEN 0 ELSE FixedTotal(items, n - 1) + FixedWidth(items[n].op)

ReadFixedOps == {"ReadFixed32", "ReadFixed64"}

\* The first thing the call did was a Next that returned a block of fewer
\* than width bytes.
ShortBlock(ev, width) ==
    /\ ev # << >>
    /\ ev[1].e = "Next" /\ ev[1].ok /\ ev[1].n < width

\* C15: ReadFixed32 / ReadFixed64 returns false whenever the block Next
\* returned holds fewer than 4 / 8 bytes, whatever the following chunks
\* hold: no value is produced and no second block is asked for.
C15_ShortBlockFails ==
    [][(/\ last'.op \in ReadFixedOps
        /\ ShortBlock(st'.ev, FixedWidth(last'.op)))
       => (/\ ~last'.ok
           /\ ~last'.raised
           /\ ~last'.flag
           /\ last'.out = << >>
           /\ Len(NextSizes(st'.ev)) = 1)]_vars

C15_Witness ==
    /\ st.kind = "MultiBufferInputStream"
    /\ st.chunks_ = << <<1, 42>>, <<0, 0, 0>> >>
    /\ last.op = "ReadFixed32" /\ ~last.ok
    /\ st.ev = << NextEv(TRUE, 2), BackUpEv(2, FALSE) >>
    /\ st.idx_ = 0

\* C16: when ReadFixed32 / ReadFixed64 fails because the block it was shown
\* is shorter than the width, the stream is left as before the call, on
\* BufferInputStream and MultiBufferInputStream alike: ByteCount() is
\* unchanged and the next Next returns the bytes the failed read was shown.
C16_FailedFixedRestoresStream ==
    [][(/\ last'.op \in ReadFixedOps
        /\ ~last'.ok
        /\ ShortBlock(st'.ev, FixedWidth(last'.op)))
       => (/\ ByteCount(st') = ByteCount(st)
           /\ \A junk \in Junk :
                /\ ZeroCopyInputStream_Next(st', junk).ok
                /\ ZeroCopyInputStream_Next(st', junk).block
                     = ZeroCopyInputStream_Next(st, junk).block)]_vars

\* C17: a call to ReadVarint32 / ReadVarint64 or to DeserializeInt32 /
\* DeserializeFloat32 that returns false (unterminated varint, tag mismatch
\* or truncated payload) leaves ByteCount() equal to its value before the
\* call.
C17_FailedDecodeKeepsByteCount ==
    [][(/\ last'.op \in {"ReadVarint32", "ReadVarint64", "DeserializeInt32", "DeserializeFloat32"}
        /\ ~last'.ok
        /\ ~last'.raised)
       => ByteCount(st') = ByteCount(st)]_vars

\* The block Next would hand out lies within the chunks: none of its bytes is
\* read out of range, where the byte read is whatever the memory holds.
InRange(s) ==
    s.kind = "MultiBufferInputStream"
    => \A junk \in Junk : ChunkTail(s.chunks_, s.idx_ - 1, s.backed_up_, junk)
                            = ChunkTail(s.chunks_, s.idx_ - 1, s.backed_up_, 0)

\* The tag a Deserialize function expects.
ExpectedTag(op) == IF op = "DeserializeInt32" THEN Type_INT32 ELSE Type_FLOAT32

\* C18: DeserializeInt32 fails, without raising and without storing a value,
\* whenever the first byte it reads is not 0x01, and DeserializeFloat32
\* likewise for a first byte other than 0x02; the failure is decided on the
\* tag alone: no block is asked for after the one holding the tag, and no
\* byte past the tag is consumed.
C18_TagMismatchFails ==
    [][(/\ last'.op \in {"DeserializeInt32", "DeserializeFloat32"}
        /\ InRange(st)
        /\ Remaining(st) # << >>
        /\ Remaining(st)[1] # ExpectedTag(last'.op))
       => (/\ ~last'.ok
           /\ ~last'.raised
           /\ ~last'.flag
           /\ Len(NextSizes(st'.ev)) = 1
           /\ ByteCount(st') - ByteCount(st) <= 1)]_vars

C18_Witness ==
    /\ st.kind = "BufferInputStream"
    /\ st.data_ = <<2, 0, 0, 128, 127>>
    /\ last.op = "DeserializeInt32" /\ ~last.ok /\ ~last.raised /\ ~last.flag
    /\ st.ev = << NextEv(TRUE, 5), BackUpEv(4, FALSE) >>
    /\ st.pos_ = 1

\* C19: WriteLengthDelimitedBytes writes varint32(len(b)) followed by the
\* bytes of b, for every b including the empty sequence, and
\* ReadLengthDelimitedBytes on a BufferInputStream holding exactly those
\* bytes succeeds and returns a view equal to b.
C19_LengthDelimitedRoundTrip ==
    /\ (/\ st.kind = "BufferOutputStream"
        /\ last.op = "WriteLengthDelimitedBytes" /\ last.ok)
       => JustWritten = VarintWire(UInt(32, Len(wr[Len(wr)].v))) \o wr[Len(wr)].v
    /\ (/\ IsInput(st) /\ rd = 1 /\ Len(wr) = 1
        /\ Wrote(1, "BufferOutputStream", {"WriteLengthDelimitedBytes"})
        /\ last.op = "ReadLengthDelimitedBytes")
       => (last.ok /\ last.out = wr[1].v)

\* C20: when the block returned after the length prefix holds at least
\* length bytes (the call succeeds without filling the persistent buffer),
\* ReadLengthDelimitedBytes returns a view of the first length bytes after
\* the prefix and backs up the remainder: ByteCount() has advanced by the
\* prefix length plus length, and what the stream hands out next starts at
\* the byte right after the payload.
C20_BorrowedViewBacksUpRemainder ==
    [][(/\ last'.op = "ReadLengthDelimitedBytes"
        /\ last'.ok /\ ~last'.flag
        /\ InRange(st)
        /\ PrefixLen(Remaining(st)) \in 1..kMaxVarint32Bytes)
       => (/\ last'.out = Slice(Remaining(st), PrefixLen(Remaining(st)),
                                PrefixVal(Remaining(st), PrefixLen(Remaining(st))))
           /\ ByteCount(st') - ByteCount(st)
                = PrefixLen(Remaining(st)) + PrefixVal(Remaining(st), PrefixLen(Remaining(st)))
           /\ InRange(st')
           /\ Remaining(st')
                = Slice(Remaining(st),
                        PrefixLen(Remaining(st)) + PrefixVal(Remaining(st), PrefixLen(Remaining(st))),
                        Len(Remaining(st)) - PrefixLen(Remaining(st))
                          - PrefixVal(Remaining(st), PrefixLen(Remaining(st)))))]_vars

\* The bytes of an input stream not yet counted by ByteCount(): what remains
\* of the data it was constructed over.
Left(s) ==
    IF s.kind = "BufferInputStream" THEN s.size_ - s.pos_
    ELSE TotalLen(s.chunks_) - s.total_

\* C21: Skip(count) returns true and advances ByteCount() by exactly count
\* when at least count bytes remain; when fewer remain it returns false and
\* leaves ByteCount() advanced by exactly the number of bytes that were
\* available, at the end of the stream.
C21_SkipAdvances ==
    [][(IsInput(st) /\ last'.op = "Skip")
       => IF Left(st) >= last'.arg
          THEN /\ last'.ok
               /\ ByteCount(st') = ByteCount(st) + last'.arg
          ELSE /\ ~last'.ok /\ ~last'.raised
               /\ ByteCount(st') = ByteCount(st) + Left(st)
               /\ Left(st') = 0]_vars

\* The bytes an input stream was constructed over, in order.
Data(s) ==
    IF s.kind = "BufferInputStream" THEN SubSeq(s.data_, 1, s.size_) ELSE Concat(s.chunks_)

\* C22: ReadRaw(dst, size) with at least size bytes remaining returns true,
\* copies exactly the next size bytes of the stream, in order, into dst and
\* advances ByteCount() by exactly size.
C22_ReadRawCopies ==
    [][(/\ IsInput(st) /\ last'.op = "ReadRaw"
        /\ Left(st) >= last'.arg)
       => (/\ last'.ok
           /\ last'.out = Slice(Data(st), ByteCount(st), last'.arg)
           /\ ByteCount(st') = ByteCount(st) + last'.arg)]_vars

\* The call ran into the end of the stream: its last Next returned false.
EndedAtNext(ev) == ev # << >> /\ ev[Len(ev)].e = "Next" /\ ~ev[Len(ev)].ok

C24_FailedReadRawKeepsByteCount ==
    [][(/\ st.kind = "MultiBufferInputStream"
        /\ last'.op = "ReadRaw"
        /\ Left(st) < last'.arg)
       => (/\ ~last'.ok
           /\ ByteCount(st') = ByteCount(st))]_vars

\* C25: whenever Next returns true on an input backend (called by the driver
\* or from inside ReadRaw or Skip) the block it returns has non-zero length,
\* on BufferInputStream and on MultiBufferInputStream, zero-length chunks
\* in the list included.
C25_NextBlockNonEmpty ==
    IsInput(st)
    => \A i \in 1..Len(st.ev) : (st.ev[i].e = "Next" /\ st.ev[i].ok) => st.ev[i].n > 0

\* The state of a MultiBufferInputStream on which Next has returned its first
\* idx_ chunks, one per call, and nothing is backed up: ByteCount() is the
\* length of their concatenation.
AfterNexts(s) ==
    /\ s.kind = "MultiBufferInputStream"
    /\ s.idx_ <= Len(s.chunks_)
    /\ s.backed_up_ = 0
    /\ s.total_ = Len(Concat(SubSeq(s.chunks_, 1, s.idx_)))
    /\ s.last_size_ = (IF s.idx_ = 0 THEN 0 ELSE Len(s.chunks_[s.idx_]))

\* C26: repeated Next calls on a MultiBufferInputStream with no BackUp in
\* between return the chunks one per call in list order and then false:
\* after k calls the blocks returned are the first k chunks, the call after
\* the last chunk returns false with ByteCount() unchanged, the blocks
\* returned by then being all the chunks.
C26_NextWalksChunks ==
    [][(AfterNexts(st) /\ last'.op = "Next")
       => IF st.idx_ < Len(st.chunks_)
          THEN /\ last'.ok
               /\ last'.out = st.chunks_[st.idx_ + 1]
               /\ st'.idx_ = st.idx_ + 1
               /\ AfterNexts(st')
          ELSE /\ ~last'.ok
               /\ ByteCount(st') = ByteCount(st)
               /\ ByteCount(st) = Len(Concat(st.chunks_))
               /\ AfterNexts(st')]_vars

C26_Witness ==
    /\ AfterNexts(st)
    /\ st.chunks_ = << <<11>>, <<21, 22>>, <<31>> >>
    /\ st.idx_ = 3
    /\ blk = <<31>>
    /\ last.op = "Next" /\ ~last.ok
    /\ ByteCount(st) = 4

\* The bytes a trace of Next and BackUp calls exposed, net of backups: the
\* sizes of the blocks Next returned less the counts BackUp took back.
RECURSIVE Net(_)
Net(ev) ==
    IF ev = << >> THEN 0
    ELSE (IF ~Head(ev).ok THEN 0
          ELSE IF Head(ev).e = "Next" THEN Head(ev).n ELSE 0 - Head(ev).n)
         + Net(Tail(ev))

\* C27: on every backend, through every sequence of Next calls and in-range
\* BackUp calls (the driver's and those made inside ReadRaw, Skip and
\* WriteRaw), ByteCount() is the sum of the sizes of all blocks Next returned
\* minus the sum of all counts backed up: it is 0 on a new stream, and every
\* call changes it by the net of its Next and BackUp calls.
C27_ByteCountIsNet ==
    /\ ByteCount(st) = 0
    /\ [][ByteCount(st') = ByteCount(st) + Net(st'.ev)]_vars

C27_Witness ==
    /\ st.kind = "MultiBufferInputStream"
    /\ st.chunks_ = << <<11, 12>>, <<21, 22>> >>
    /\ last.op = "BackUp" /\ last.arg = 2 /\ ~last.raised
    /\ blk = <<21, 22>>
    /\ ByteCount(st) = 2

\* C28: WriteRaw(src, size) on a BufferOutputStream with at least size bytes
\* of free capacity returns true, stores the bytes at buffer offsets
\* [p, p + size), p being ByteCount() before the call, leaves the rest of
\* the buffer alone and ByteCount() at p + size; with less free capacity
\* than size it returns false.
C28_WriteRawStores ==
    [][(st.kind = "BufferOutputStream" /\ last'.op = "WriteRaw")
       => IF st.size_ - ByteCount(st) >= Len(last'.arg)
          THEN /\ last'.ok
               /\ Slice(st'.data_, ByteCount(st), Len(last'.arg)) = last'.arg
               /\ \A i \in 1..st.size_ :
                    (i <= ByteCount(st) \/ i > ByteCount(st) + Len(last'.arg))
                      => st'.data_[i] = st.data_[i]
               /\ ByteCount(st') = ByteCount(st) + Len(last'.arg)
          ELSE ~last'.ok /\ ~last'.raised]_vars

C28_Witness ==
    /\ st.kind = "BufferOutputStream"
    /\ st.size_ = 5
    /\ last.op = "WriteRaw" /\ last.ok /\ last.arg = <<1>>
    /\ st.data_ = <<1, 1, 0, 0, 0>>
    /\ ByteCount(st) = 2

\* C29: after WriteRaw(src, n) on a fresh VectorOutputStream, for every
\* n >= 1, n equal to the block size included, ByteCount() == n and
\* buffer().size() == n.
C29_VectorSizeAfterWriteRaw ==
    (/\ st.kind = "VectorOutputStream"
     /\ calls = 1
     /\ last.op = "WriteRaw")
    => (/\ last.ok
        /\ ByteCount(st) = Len(last.arg)
        /\ st.buf_.size = Len(last.arg))

\* C30: an in-range BackUp(k) on a VectorOutputStream (k no more than what
\* is left of the last block) reduces ByteCount() by exactly k and leaves
\* buffer().size() equal to ByteCount().
C30_VectorBackUpTruncates ==
    [][(/\ st.kind = "VectorOutputStream"
        /\ last'.op = "BackUp"
        /\ last'.arg <= avail)
       => (/\ ~last'.raised
           /\ ByteCount(st') = ByteCount(st) - last'.arg
           /\ st'.buf_.size = ByteCount(st')
           /\ Len(VectorOutputStream_buffer(st')) = ByteCount(st'))]_vars

C30_Witness ==
    /\ st.kind = "VectorOutputStream"
    /\ calls = 2
    /\ last.op = "BackUp" /\ last.arg = 2 /\ ~last.raised
    /\ ByteCount(st) = 3
    /\ st.buf_.size = 3

C32_VectorGrowsOnDemand ==
    [][(st.kind = "VectorOutputStream" /\ last'.op = "Next")
       => IF st.buf_.capacity >= ByteCount(st) + st.block_size_
          THEN st'.buf_.capacity = st.buf_.capacity
          ELSE st'.buf_.capacity >= 2 * st.buf_.capacity]_vars

\* C33: when ReadVarint32 or ReadVarint64 returns false, because the stream
\* ended inside the varint or because no terminating byte came within the
\* width guard, the output value is 0.
C33_FailedVarintYieldsZero ==
    [][(/\ last'.op \in {"ReadVarint32", "ReadVarint64"}
        /\ InRange(st)
        /\ ~last'.ok
        /\ ~last'.raised)
       => last'.out = UInt(VarintWidth(last'.op), 0)]_vars

\* ------------------------------------------------------------------------
\* The buffer-based TLV functions: a caller's byte array, a tag byte first
\* ------------------------------------------------------------------------

\* An encoder that writes one byte whatever the value.
encode_varint_OneByte(value) == << U8(value) % 128 >>

\* encode_varint: the bytes stored at buffer[0..i-1]; i is their number.
RECURSIVE encode_varint(_)
encode_varint(value) ==
    IF \E i \in DOMAIN value : i >= 7 /\ value[i] = 1
    THEN << (U8(value) % 128) + 128 >> \o encode_varint(ShiftRight(value, 7))
    ELSE << U8(value) % 128 >>

\* decode_varint's loop from byte i of buffer on: value |= (byte & 0x7F) <<
\* shift, left after a byte without 0x80, "Varint too long" once shift
\* passes 28.
RECURSIVE decode_varint_loop(_, _, _, _)
decode_varint_loop(buffer, value, shift, i) ==
    Bind(At(buffer, i), LAMBDA byte :
    Bind(OrShifted(value, byte % 128, shift), LAMBDA val :
    IF byte < 128 THEN [raised |-> FALSE, value |-> val, n |-> i + 1]
    ELSE IF shift + 7 > 28 THEN [raised |-> TRUE, value |-> val, n |-> i + 1]
    ELSE decode_varint_loop(buffer, val, shift + 7, i + 1)))

decode_varint(buffer) == decode_varint_loop(buffer, UInt(32, 0), 0, 0)

\* std::memcpy(buffer + at, bytes, n): the bytes replace those at offset at,
\* every other byte of the array keeps what it held.
Poke(buffer, at, bytes) ==
    [i \in 1..Len(buffer) |->
        IF i > at /\ i <= at + Len(bytes) THEN bytes[i - at] ELSE buffer[i]]

\* The object representation std::memcpy copies: four bytes, lowest first.
serialize_int32(buffer, value) ==
    [buffer |-> Poke(Poke(buffer, 0, << Type_INT32 >>), 1,
                     FixedBytes(Int32ToUInt32(value), 4)),
     n      |-> 1 + 4]

\* The int32_t read back leaves the function as a size_t: widened with its
\* sign.
deserialize_int32(buffer) ==
    IF At(buffer, 0) # Type_INT32
    THEN [raised |-> TRUE, value |-> UInt(64, 0)]
    ELSE Bind(FixedValue(Slice(buffer, 1, 4), 4), LAMBDA value :
         [raised |-> FALSE,
          value  |-> [i \in 0..63 |-> value[Min(i, 31)]]])

serialize_string(buffer, str) ==
    Bind(encode_varint(UInt(32, Len(str))), LAMBDA len :
    [buffer |-> Poke(Poke(Poke(buffer, 0, << Type_STRING >>), 1, len),
                     1 + Len(len), str),
     n      |-> 1 + Len(len) + Len(str)])

deserialize_string(buffer) ==
    IF At(buffer, 0) # Type_STRING
    THEN [raised |-> TRUE, value |-> << >>, out_size |-> 0]
    ELSE Bind(decode_varint(Slice(buffer, 1, 5)), LAMBDA d :
         IF d.raised THEN [raised |-> TRUE, value |-> << >>, out_size |-> 0]
         ELSE [raised   |-> FALSE,
               value    |-> Slice(buffer, 1 + d.n, ToSize(d.value)),
               out_size |-> 1 + d.n + ToSize(d.value)])

serialize_float32(buffer, value) ==
    [buffer |-> Poke(Poke(buffer, 0, << Type_FLOAT32 >>), 1,
                     FixedBytes(FloatToBits(value), 4)),
     n      |-> 1 + 4]

deserialize_float32(buffer) ==
    IF At(buffer, 0) # Type_FLOAT32
    THEN [raised |-> TRUE, value |-> BitsToFloat(UInt(32, 0))]
    ELSE [raised |-> FALSE,
          value  |-> BitsToFloat(FixedValue(Slice(buffer, 1, 4), 4))]

\* int32_t out = deserialize_int32(buffer): the size_t narrowed again.
SizeToInt32(v) == UInt32ToInt32([i \in 0..31 |-> v[i]])

\* ------------------------------------------------------------------------
\* The TLV tests: one static array, serialize and deserialize calls on it
\* ------------------------------------------------------------------------

\* Length of the long string, 'x' repeated: like the tests' 10000 bytes it
\* takes a length prefix of two bytes.
LongString == 200

\* The tests' array; it holds the longest record and some bytes more.
BUFFER_SIZE == LongString + 16

\* 192, INT32_MIN, INT32_MAX, and -1 and 0
TlvInt32s == {192, -2147483647 - 1, 2147483647, -1, 0}

\* "hello world", "", the long string, and one of 127 and of 128 bytes
TlvStrings ==
    {<<104, 101, 108, 108, 111, 32, 119, 111, 114, 108, 100>>, << >>,
     Fill(LongString, 120), Fill(127, 121), Fill(128, 122)}

TlvCall(op, arg, raised, out, n) ==
    [op |-> op, arg |-> arg, ok |-> ~raised, raised |-> raised, out |-> out, n |-> n]

TlvInit ==
    /\ st = [kind |-> "buffer", bytes |-> Fill(BUFFER_SIZE, 0)]
    /\ last = TlvCall("none", 0, FALSE, 0, 0)
    /\ wr = TlvCall("none", 0, FALSE, 0, 0)
    /\ calls = 0
    /\ blk = << >>
    /\ avail = 0
    /\ rd = 0

Serialized(op, arg, r) ==
    /\ st' = [st EXCEPT !.bytes = r.buffer]
    /\ last' = TlvCall(op, arg, FALSE, r.n, r.n)
    /\ wr' = last'
    /\ calls' = calls + 1
    /\ UNCHANGED << blk, avail, rd >>

Deserialized(op, r, n) ==
    /\ last' = TlvCall(op, 0, r.raised, r.value, n)
    /\ calls' = calls + 1
    /\ UNCHANGED << st, wr, blk, avail, rd >>

Do_serialize_int32 ==
    /\ calls < MaxCalls
    /\ \E v \in TlvInt32s :
         \E r \in {serialize_int32(st.bytes, v)} : Serialized("serialize_int32", v, r)

Do_serialize_float32 ==
    /\ calls < MaxCalls
    /\ \E v \in Floats :
         \E r \in {serialize_float32(st.bytes, v)} : Serialized("serialize_float32", v, r)

Do_serialize_string ==
    /\ calls < MaxCalls
    /\ \E v \in TlvStrings :
         \E r \in {serialize_string(st.bytes, v)} : Serialized("serialize_string", v, r)

Do_deserialize_int32 ==
    /\ calls < MaxCalls
    /\ \E r \in {deserialize_int32(st.bytes)} : Deserialized("deserialize_int32", r, 0)

Do_deserialize_float32 ==
    /\ calls < MaxCalls
    /\ \E r \in {deserialize_float32(st.bytes)} : Deserialized("deserialize_float32", r, 0)

Do_deserialize_string ==
    /\ calls < MaxCalls
    /\ \E r \in {deserialize_string(st.bytes)} :
         Deserialized("deserialize_string", r, r.out_size)

TlvNext ==
    \/ Do_serialize_int32
    \/ Do_serialize_float32
    \/ Do_serialize_string
    \/ Do_deserialize_int32
    \/ Do_deserialize_float32
    \/ Do_deserialize_string

SpecTlv == TlvInit /\ [][TlvNext]_vars

\* C34: the buffer-based TLV functions round-trip: deserialize_int32,
\* deserialize_float32 and deserialize_string applied to the bytes the
\* matching serialize function wrote last return the value serialized
\* (INT32_MIN and INT32_MAX, NaN and Infinity, the empty and the long string
\* included), and deserialize_string reports as out_size the number of bytes
\* serialize_string returned.
C34_TlvRoundTrip ==
    [][/\ (last'.op = "deserialize_int32" /\ wr.op = "serialize_int32")
            => (~last'.raised /\ SizeToInt32(last'.out) = wr.arg)
       /\ (last'.op = "deserialize_float32" /\ wr.op = "serialize_float32")
            => (~last'.raised /\ last'.out = wr.arg)
       /\ (last'.op = "deserialize_string" /\ wr.op = "serialize_string")
            => (~last'.raised /\ last'.out = wr.arg /\ last'.n = wr.n)]_vars

C34_Witness ==
    /\ last.op = "deserialize_string"
    /\ wr.op = "serialize_string"
    /\ wr.arg = Fill(LongString, 120)
    /\ last.out = wr.arg
    /\ last.n = LongString + 3
    /\ calls = 3

\* ------------------------------------------------------------------------
\* A MultiBufferInputStream over chunks beside a BufferInputStream over their
\* concatenation, the same reads made on both
\* ------------------------------------------------------------------------

\* The chunks the bytes arrive in: every split of a short string and of an
\* encoded value, and an endless varint whole, cut once and byte by byte.
PairChunks ==
    UNION {Splits(d) : d \in ShortData \cup Samples}
    \cup UNION {{<< d >>, CutAt(d, 2), Singles(d)} : d \in Unterminated}

\* What a call left behind on one stream.
Outcome(r, out) ==
    [ok |-> r.ok, raised |-> r.raised, out |-> out, bc |-> ByteCount(r.s)]

PairInit ==
    /\ \E c \in PairChunks :
         st = [kind   |-> "pair",
               multi  |-> MultiBufferInputStream(c),
               buffer |-> BufferInputStream(Concat(c), Len(Concat(c)))]
    /\ last = [op |-> "none", arg |-> 0,
               m |-> [ok |-> TRUE, raised |-> FALSE, out |-> << >>, bc |-> 0],
               b |-> [ok |-> TRUE, raised |-> FALSE, out |-> << >>, bc |-> 0]]
    /\ calls = 0
    /\ blk = << >>
    /\ avail = 0
    /\ wr = << >>
    /\ rd = 0

\* Calls go on until one returns false (or throws) on either stream.
PairGoesOn ==
    /\ calls < MaxCalls
    /\ last.m.ok /\ last.b.ok

Paired(op, arg, rm, om, rb, ob) ==
    /\ st' = [st EXCEPT !.multi = rm.s, !.buffer = rb.s]
    /\ last' = [op |-> op, arg |-> arg, m |-> Outcome(rm, om), b |-> Outcome(rb, ob)]
    /\ calls' = calls + 1
    /\ UNCHANGED << blk, avail, wr, rd >>

DoPairReadRaw ==
    /\ PairGoesOn
    /\ \E size \in 0..MaxData, jm \in Junk, jb \in Junk :
         \E rm \in {ReadRaw(Clear(st.multi), size, jm)} :
           \E rb \in {ReadRaw(Clear(st.buffer), size, jb)} :
             Paired("ReadRaw", size, rm, rm.out, rb, rb.out)

DoPairSkip ==
    /\ PairGoesOn
    /\ \E count \in 0..MaxData, jm \in Junk, jb \in Junk :
         \E rm \in {Skip(Clear(st.multi), count, jm)} :
           \E rb \in {Skip(Clear(st.buffer), count, jb)} :
             Paired("Skip", count, rm, << >>, rb, << >>)

DoPairReadVarint32 ==
    /\ PairGoesOn
    /\ \E jm \in Junk, jb \in Junk :
         \E rm \in {ReadVarint32(Clear(st.multi), jm)} :
           \E rb \in {ReadVarint32(Clear(st.buffer), jb)} :
             Paired("ReadVarint32", 0, rm, rm.out_val, rb, rb.out_val)

DoPairReadVarint64 ==
    /\ PairGoesOn
    /\ \E jm \in Junk, jb \in Junk :
         \E rm \in {ReadVarint64(Clear(st.multi), jm)} :
           \E rb \in {ReadVarint64(Clear(st.buffer), jb)} :
             Paired("ReadVarint64", 0, rm, rm.out_val, rb, rb.out_val)

PairNext ==
    \/ DoPairReadRaw
    \/ DoPairSkip
    \/ DoPairReadVarint32
    \/ DoPairReadVarint64

SpecPair == PairInit /\ [][PairNext]_vars

\* C35: over every split of a byte string into non-empty chunks, every
\* sequence of ReadRaw, Skip, ReadVarint32 and ReadVarint64 calls, up to and
\* including the first that returns false, gives the same return value and
\* the same data on the MultiBufferInputStream as on the BufferInputStream
\* over the concatenation, and the same ByteCount() after every call that
\* returned true.
C35_MultiRefinesBuffer ==
    last.op # "none"
    => (/\ last.m.ok = last.b.ok
        /\ last.m.raised = last.b.raised
        /\ last.m.out = last.b.out
        /\ last.m.ok => (/\ last.m.bc = last.b.bc
                         /\ ByteCount(st.multi) = ByteCount(st.buffer)))

C35_Witness ==
    /\ st.multi.chunks_ = << <<2, 128>>, <<1>> >>
    /\ calls = 2
    /\ last.op = "ReadVarint32"
    /\ last.m.ok /\ last.b.ok
    /\ last.m.out = UInt(32, 128)
    /\ st.multi.ev = << NextEv(TRUE, 1), NextEv(TRUE, 1), BackUpEv(0, FALSE) >>
    /\ ByteCount(st.buffer) = 3

\* C36: on a MultiBufferInputStream two successive calls BackUp(a) and
\* BackUp(b) after one Next, a + b within the block returned, do what the
\* single call BackUp(a + b) does: the next Next returns exactly the last
\* a + b bytes of that block.  (last is BackUp(a), the first since the Next
\* that returned blk; the step is BackUp(b).)
C36_SplitBackUpAdds ==
    [][(/\ st.kind = "MultiBufferInputStream"
        /\ last.op = "BackUp" /\ ~last.raised
        /\ last.arg + avail = Len(blk)
        /\ last'.op = "BackUp"
        /\ last'.arg <= avail
        /\ last.arg + last'.arg > 0)
       => (/\ ~last'.raised
           /\ \A junk \in Junk :
                \E r \in {MultiBufferInputStream_Next(Clear(st'), junk)} :
                    /\ r.ok
                    /\ r.block = Slice(blk, avail - last'.arg, last.arg + last'.arg))]_vars

\* C37: in every state of a MultiBufferInputStream reached through Next and
\* in-range BackUp calls, 0 <= idx_ <= number of chunks, and a pending
\* backed_up_ > 0 comes with idx_ >= 1 and backed_up_ <= size of chunk
\* idx_ - 1, so that Next indexes the chunk list in range and its block lies
\* inside one chunk.
C37_ChunkIndexInRange ==
    st.kind = "MultiBufferInputStream"
    => (/\ 0 <= st.idx_
        /\ st.idx_ <= Len(st.chunks_)
        /\ st.backed_up_ > 0
             => (/\ st.idx_ >= 1
                 /\ st.backed_up_ <= Len(At(st.chunks_, st.idx_ - 1))))

\* C38: a BackUp call rejected as out of range leaves the stream unchanged on
\* every backend: ByteCount() is what it was, and the next Next returns the
\* block, and leaves the stream in the state, it would have without the
\* rejected call.
C38_RejectedBackUpIsNoOp ==
    [][(last'.op = "BackUp" /\ last'.raised)
       => (/\ ByteCount(st') = ByteCount(st)
           /\ IF IsInput(st)
              THEN \A junk \in Junk :
                     ZeroCopyInputStream_Next(Clear(st'), junk)
                       = ZeroCopyInputStream_Next(Clear(st), junk)
              ELSE ZeroCopyOutputStream_Next(Clear(st'))
                     = ZeroCopyOutputStream_Next(Clear(st)))]_vars

\* C38 witness: BackUp(3) rejected after Next returned a chunk of two bytes.
C38_Witness ==
    /\ st.kind = "MultiBufferInputStream"
    /\ last.op = "BackUp" /\ last.arg = 3 /\ last.raised
    /\ st.ev = << BackUpEv(3, TRUE) >>
    /\ st.last_size_ = 2 /\ st.backed_up_ = 0
    /\ ByteCount(st) = 2

\* ------------------------------------------------------------------------
\* The loops of Skip, ReadRaw and the varint readers, one iteration a step
\* ------------------------------------------------------------------------

\* Chunk lists with empty chunks before, between and after the bytes of a
\* varint, and a varint that never ends, byte by byte.
LoopChunks ==
    ChunkLists
    \cup {<< << >>, <<128>>, << >>, <<1>> >>,
          << <<255>>, << >>, << >>, <<255, 1>>, << >> >>,
          << << >>, << >> >>,
          Singles(Fill(kMaxVarint32Bytes + 1, 255))}

LoopInits ==
    {BufferInputStream(Iota(1, n), n) : n \in 0..MaxData}
    \cup {BufferInputStream(d, Len(d)) : d \in {<<128, 1>>, Fill(kMaxVarint32Bytes + 1, 255)}}
    \cup {MultiBufferInputStream(c) : c \in LoopChunks}

\* The frame of a call: op and arg as called; pc "loop" while the call is
\* inside its loop; count what Skip / ReadRaw still want; shift, data, p
\* and cur the varint readers' shift, block, ptr - data (-1 for nullptr) and
\* whether ptr points into data; out the bytes copied or out_val.
Frame(op, arg, pc, count, limit, out) ==
    [op |-> op, arg |-> arg, pc |-> pc, count |-> count, limit |-> limit,
     shift |-> 0, data |-> << >>, p |-> -1, cur |-> FALSE, out |-> out,
     ok |-> TRUE, raised |-> FALSE]

LoopInit ==
    /\ st \in LoopInits
    /\ last = Frame("none", 0, "idle", 0, 0, << >>)
    /\ calls = 0
    /\ rd = 0
    /\ blk = << >>
    /\ avail = 0
    /\ wr = << >>

\* The caller is between calls, and makes at most MaxCalls of them.
Idle ==
    /\ last.pc # "loop"
    /\ calls < MaxCalls

Begin(s, frame) ==
    /\ st' = s
    /\ last' = frame
    /\ calls' = calls + 1
    /\ rd' = 0
    /\ UNCHANGED << blk, avail, wr >>

\* The iteration goes round again.
Continue(s, frame) ==
    /\ st' = s
    /\ last' = frame
    /\ rd' = rd + 1
    /\ UNCHANGED << calls, blk, avail, wr >>

\* The iteration leaves the function, by return or by exception.
Finish(s, ok, raised, out) ==
    Continue(s, [last EXCEPT !.pc = "done", !.ok = ok, !.raised = raised, !.out = out])

\* Next and BackUp called by the caller itself, between the calls.
CallNext ==
    /\ Idle
    /\ \E junk \in Junk :
         \E r \in {ZeroCopyInputStream_Next(Clear(st), junk)} :
             Begin(r.s, [Frame("Next", 0, "done", 0, 0, r.block) EXCEPT !.ok = r.ok])

CallBackUp ==
    /\ Idle
    /\ \E count \in 0..MaxBackUp :
         \E r \in {ZeroCopyInputStream_BackUp(Clear(st), count)} :
             Begin(r.s, [Frame("BackUp", count, "done", 0, 0, << >>)
                            EXCEPT !.ok = ~r.raised, !.raised = r.raised])

CallSkip ==
    /\ Idle
    /\ \E count \in 0..MaxData :
         Begin(Clear(st), Frame("Skip", count, "loop", count, 0, << >>))

CallReadRaw ==
    /\ Idle
    /\ \E size \in 0..MaxData :
         Begin(Clear(st), Frame("ReadRaw", size, "loop", size, 0, << >>))

CallReadVarint32 ==
    /\ Idle
    /\ Begin(Clear(st), Frame("ReadVarint32", 0, "loop", 0, 35, UInt(32, 0)))

CallReadVarint64 ==
    /\ Idle
    /\ Begin(Clear(st), Frame("ReadVarint64", 0, "loop", 0, 70, UInt(64, 0)))

\* while (count > 0) { Next; if (n > count) { BackUp; break; } count -= n; }
StepSkip ==
    /\ last.op = "Skip" /\ last.pc = "loop"
    /\ IF last.count = 0 THEN Finish(st, TRUE, FALSE, << >>)
       ELSE \E junk \in Junk :
              \E r \in {ZeroCopyInputStream_Next(st, junk)} :
                IF ~r.ok THEN Finish(r.s, FALSE, FALSE, << >>)
                ELSE IF r.size > last.count
                THEN \E b \in {ZeroCopyInputStream_BackUp(r.s, r.size - last.count)} :
                         Finish(b.s, ~b.raised, b.raised, << >>)
                ELSE Continue(r.s, [last EXCEPT !.count = @ - r.size])

\* while (remaining > 0) { Next; copy; BackUp and return, or go on }
StepReadRaw ==
    /\ last.op = "ReadRaw" /\ last.pc = "loop"
    /\ IF last.count = 0 THEN Finish(st, TRUE, FALSE, last.out)
       ELSE \E junk \in Junk :
              \E r \in {ZeroCopyInputStream_Next(st, junk)} :
                IF ~r.ok THEN Finish(r.s, FALSE, FALSE, last.out)
                ELSE IF r.size > last.count
                THEN \E b \in {ZeroCopyInputStream_BackUp(r.s, r.size - last.count)} :
                         Finish(b.s, ~b.raised, b.raised,
                                last.out \o Slice(r.block, 0, last.count))
                ELSE Continue(r.s, [last EXCEPT !.count = @ - r.size,
                                                !.out = @ \o r.block])

\* One turn of while (shift < 35) / while (shift < 70): a refill when ptr is
\* null or at the end of the block (after an empty block ptr is stale, and
\* the comparison and the read through it are undefined), then one byte.
StepReadVarint ==
    /\ last.op \in {"ReadVarint32", "ReadVarint64"} /\ last.pc = "loop"
    /\ IF ~(last.shift < last.limit) THEN Finish(st, FALSE, FALSE, last.out)
       ELSE \E junk \in Junk :
         \E refill \in {last.p = -1 \/ (IF last.cur THEN last.p >= Len(last.data)
                                        ELSE junk % 2 = 0)} :
           \E r \in {IF refill THEN ZeroCopyInputStream_Next(st, junk)
                     ELSE [s |-> st, ok |-> TRUE, block |-> last.data,
                           size |-> Len(last.data)]} :
             IF ~r.ok THEN Finish(r.s, FALSE, FALSE, last.out)
             ELSE IF refill /\ r.size = 0
             THEN Continue(r.s, [last EXCEPT !.data = r.block, !.cur = FALSE])
             ELSE \E q \in {IF refill THEN 0 ELSE last.p} :
                  \E here \in {refill \/ last.cur} :
                  \E byte \in {IF here THEN At(r.block, q) ELSE junk} :
                  \E val \in {OrShifted(last.out, byte % 128, last.shift)} :
                    IF byte < 128
                    THEN \E b \in {ZeroCopyInputStream_BackUp(r.s,
                                       IF here THEN r.size - (q + 1) ELSE junk)} :
                             Finish(b.s, ~b.raised, b.raised, val)
                    ELSE Continue(r.s, [last EXCEPT !.out = val, !.shift = @ + 7,
                                                    !.data = r.block, !.p = q + 1,
                                                    !.cur = here])

LoopNext ==
    \/ CallNext
    \/ CallBackUp
    \/ CallSkip
    \/ CallReadRaw
    \/ CallReadVarint32
    \/ CallReadVarint64
    \/ StepSkip
    \/ StepReadRaw
    \/ StepReadVarint

\* A call that has begun keeps executing: the thread in the loop takes its
\* next iteration.
SpecLoop ==
    /\ LoopInit
    /\ [][LoopNext]_vars
    /\ WF_vars(StepSkip)
    /\ WF_vars(StepReadRaw)
    /\ WF_vars(StepReadVarint)

\* What is left for Next to hand out, in blocks: the chunks not yet taken and
\* a pending backed-up tail, or the rest of the single buffer.
BlocksLeft(s) ==
    IF s.kind = "BufferInputStream" THEN (IF s.pos_ < s.size_ THEN 1 ELSE 0)
    ELSE (Len(s.chunks_) - s.idx_) + (IF s.backed_up_ > 0 THEN 1 ELSE 0)

\* C39: ReadVarint32, ReadVarint64, Skip and ReadRaw terminate on every
\* finite input stream, a MultiBufferInputStream with zero-length chunks
\* included: every loop iteration consumes a byte (the shift grows),
\* consumes a chunk (fewer blocks are left) or ends the call, and a call
\* inside its loop eventually leaves it.
C39_LoopsTerminate ==
    /\ [][last.pc = "loop"
          => (\/ last'.pc = "done"
              \/ last'.shift > last.shift
              \/ BlocksLeft(st') < BlocksLeft(st))]_vars
    /\ (last.pc = "loop") ~> (last.pc = "done")

\* C39 witness: ReadVarint32 over the chunks {} {80} {} {01} has returned
\* true with 128 after four iterations, two of which took an empty chunk.
C39_Witness ==
    /\ st.kind = "MultiBufferInputStream"
    /\ st.chunks_ = << << >>, <<128>>, << >>, <<1>> >>
    /\ last.op = "ReadVarint32" /\ last.pc = "done" /\ last.ok
    /\ last.out = UInt(32, 128)
    /\ rd = 4
    /\ st.idx_ = 4

====
